---- MODULE Spec2Model ----
(***************************************************************************)
(* Model of storacha/go-mkdelegation: the gen command (cmd/gen.go), the    *)
(* delegation package (pkg/delegation) and the formatting of a delegation  *)
(* archive as a multibase-base64 CIDv1 with an identity multihash.         *)
(*                                                                         *)
(* Text is a sequence of ASCII codes, binary data a sequence of bytes      *)
(* (0..255).  Principals and abilities are strings.                        *)
(***************************************************************************)
EXTENDS Integers, Sequences, FiniteSets, TLC

VARIABLES
    pc,            \* position of the running command
    flags,         \* the gen command's flag variables (cmd/gen.go:27-36)
    opts,          \* the delegation options the expiration check chose
    now,           \* the Unix time at the expiration check, 0 before it
    issuer,        \* the issuer signer [did, key]: None or Some(signer)
    audience,      \* the parsed audience DID: None or Some(did)
    deleg,         \* the delegation MakeDelegation returned: None or Some(d)
    signCalls,     \* number of times the signer has signed
    stdout,        \* lines printed, each a text
    err,           \* the error the command returned, "" for none
    info,          \* what ParseDelegationContent returned: None or Some(info);
                   \* the results in order when the resolution is called again
    known,         \* the KnownCapabilities map (a package-level variable)
    abilities,     \* the argument of validateCapability
    errs,          \* the errors validateCapability collected
    archive,       \* the argument of FormatDelegationBytes
    formatted,     \* its result
    digest,        \* the digest recovered from the formatted text
    content,       \* the argument of ParseDelegationContent
    calls,         \* the texts it handed to delegation.Parse, in order
    stack,         \* the calls of parseDelegationToDelegationInfo in progress
    services,      \* main.go: the signers of the services parsed or generated
    ucans,         \* main.go: the three formatted delegations
    files,         \* the file system: the files written, path to content
    writes,        \* the os.WriteFile calls made so far, in order
    runs,          \* number of runs of the generator started
    wallClock      \* the wall clock, in ticks

vars == <<pc, flags, opts, now, issuer, audience, deleg, signCalls, stdout, err,
          info, known, abilities, errs, archive, formatted, digest,
          content, calls, stack, services, ucans, files, writes, runs, wallClock>>

\* The state of the three-service generator of main.go.
g3vars == <<services, ucans, files, writes, runs, wallClock>>

\* A nil pointer or an absent value is the empty sequence, a present one a
\* sequence of one element.
None == <<>>
Some(x) == <<x>>

\* No run of the three-service generator of main.go has started.
NoGenerator ==
    /\ services = <<>> /\ ucans = <<>> /\ files = <<>> /\ writes = <<>>
    /\ runs = 0 /\ wallClock = 0

(***************************************************************************)
(* Bounds of the model.                                                    *)
(***************************************************************************)
MaxCaps == 2          \* longest --capabilities list given to gen
MaxNow == 3           \* latest clock value
MaxAbilities == 3     \* longest list given to validateCapability
MaxArchiveLen == 3    \* longest archive given to FormatDelegationBytes alone

(***************************************************************************)
(* Sequences.                                                              *)
(***************************************************************************)
Take(s, n) == SubSeq(s, 1, n)
Drop(s, n) == SubSeq(s, n + 1, Len(s))

SeqsUpTo(S, n) == UNION {[1..k -> S] : k \in 0..n}

(***************************************************************************)
(* Unsigned varints (multiformats): 7 bits per byte, least significant     *)
(* group first, high bit set on every byte but the last.                   *)
(***************************************************************************)
RECURSIVE PutUvarint(_)
PutUvarint(n) ==
    IF n < 128 THEN <<n>>
    ELSE <<128 + (n % 128)>> \o PutUvarint(n \div 128)

\* [ok, value, rest]: reads one varint from the front of bytes.
RECURSIVE Uvarint(_)
Uvarint(bytes) ==
    IF Len(bytes) = 0 THEN [ok |-> FALSE, value |-> 0, rest |-> <<>>]
    ELSE IF Head(bytes) < 128
         THEN [ok |-> TRUE, value |-> Head(bytes), rest |-> Tail(bytes)]
         ELSE LET r == Uvarint(Tail(bytes))
              IN  [ok |-> r.ok /\ r.value > 0,   \* a canonical varint has no zero top group
                   value |-> (Head(bytes) - 128) + 128 * r.value,
                   rest |-> r.rest]

(***************************************************************************)
(* base64, standard alphabet.                                              *)
(***************************************************************************)
B64Char(i) ==
    IF i < 26 THEN 65 + i
    ELSE IF i < 52 THEN 97 + (i - 26)
    ELSE IF i < 62 THEN 48 + (i - 52)
    ELSE IF i = 62 THEN 43 ELSE 47

\* The sextet a character stands for, or -1.
B64Val(c) ==
    IF c >= 65 /\ c <= 90 THEN c - 65
    ELSE IF c >= 97 /\ c <= 122 THEN c - 97 + 26
    ELSE IF c >= 48 /\ c <= 57 THEN c - 48 + 52
    ELSE IF c = 43 THEN 62
    ELSE IF c = 47 THEN 63 ELSE -1

PadChar == 61

\* base64.RawStdEncoding.EncodeToString: no padding.
RECURSIVE B64EncodeRaw(_)
B64EncodeRaw(bytes) ==
    IF Len(bytes) = 0 THEN <<>>
    ELSE IF Len(bytes) = 1
    THEN <<B64Char(bytes[1] \div 4), B64Char((bytes[1] % 4) * 16)>>
    ELSE IF Len(bytes) = 2
    THEN <<B64Char(bytes[1] \div 4),
           B64Char((bytes[1] % 4) * 16 + bytes[2] \div 16),
           B64Char((bytes[2] % 16) * 4)>>
    ELSE <<B64Char(bytes[1] \div 4),
           B64Char((bytes[1] % 4) * 16 + bytes[2] \div 16),
           B64Char((bytes[2] % 16) * 4 + bytes[3] \div 64),
           B64Char(bytes[3] % 64)>> \o B64EncodeRaw(Drop(bytes, 3))

\* base64.StdEncoding.EncodeToString: padded with '=' to a multiple of 4.
B64EncodeStd(bytes) ==
    LET raw == B64EncodeRaw(bytes)
    IN  IF Len(raw) % 4 = 2 THEN raw \o <<PadChar, PadChar>>
        ELSE IF Len(raw) % 4 = 3 THEN raw \o <<PadChar>>
        ELSE raw

\* The decoders skip '\r' and '\n' (encoding/base64).
StripNewlines(text) == SelectSeq(text, LAMBDA c : c # 10 /\ c # 13)

\* Sextets to bytes; the trailing bits of a partial group are dropped.
RECURSIVE SextetsToBytes(_)
SextetsToBytes(v) ==
    IF Len(v) < 2 THEN <<>>
    ELSE IF Len(v) = 2 THEN <<v[1] * 4 + v[2] \div 16>>
    ELSE IF Len(v) = 3
    THEN <<v[1] * 4 + v[2] \div 16, (v[2] % 16) * 16 + v[3] \div 4>>
    ELSE <<v[1] * 4 + v[2] \div 16,
           (v[2] % 16) * 16 + v[3] \div 4,
           (v[3] % 4) * 64 + v[4]>> \o SextetsToBytes(Drop(v, 4))

\* base64.RawStdEncoding.DecodeString: [ok, bytes].
B64DecodeRaw(text) ==
    LET t == StripNewlines(text)
        v == [i \in 1..Len(t) |-> B64Val(t[i])]
    IN  IF (\E i \in 1..Len(t) : v[i] = -1) \/ Len(t) % 4 = 1
        THEN [ok |-> FALSE, bytes |-> <<>>]
        ELSE [ok |-> TRUE, bytes |-> SextetsToBytes(v)]

\* base64.StdEncoding.DecodeString: the padding is required.
B64DecodeStd(text) ==
    LET t == StripNewlines(text)
        n == Len(t)
        pads == IF n >= 2 /\ t[n] = PadChar /\ t[n - 1] = PadChar THEN 2
                ELSE IF n >= 1 /\ t[n] = PadChar THEN 1 ELSE 0
        r == B64DecodeRaw(Take(t, n - pads))
    IN  IF n % 4 # 0 \/ ~r.ok \/ (n - pads) % 4 = 1
        THEN [ok |-> FALSE, bytes |-> <<>>]
        ELSE r

(***************************************************************************)
(* Multihash, CID, multibase.                                              *)
(***************************************************************************)
IDENTITY == 0         \* multihash.IDENTITY
CarCodec == 514       \* multicodec.Car, 0x0202
CidVersion == 1
Base64Prefix == 109   \* 'm', multibase.Base64

\* Variant: a one-byte checksum in place of the identity digest.
MultihashSumChecksum(data) ==
    PutUvarint(IDENTITY) \o PutUvarint(1)
    \o <<(IF Len(data) = 0 THEN 0 ELSE data[1] + Len(data)) % 256>>

\* multihash.Sum(data, multihash.IDENTITY, -1): code, length, the data itself.
MultihashSumIdentity(data) ==
    PutUvarint(IDENTITY) \o PutUvarint(Len(data)) \o data

\* cid.NewCidV1(codec, mh).Bytes()
NewCidV1(codec, mh) == PutUvarint(CidVersion) \o PutUvarint(codec) \o mh

\* Cid.StringOfBase(multibase.Base64)
StringOfBase64(cidBytes) == <<Base64Prefix>> \o B64EncodeRaw(cidBytes)

\* Variant: the CID tagged with the raw codec (0x55) in place of the CAR codec.
FormatDelegationBytesRawCodec(a) ==
    StringOfBase64(NewCidV1(85, MultihashSumIdentity(a)))

\* FormatDelegationBytes: the archive as a base64 CIDv1 whose digest is the archive.
FormatDelegationBytes(a) ==
    StringOfBase64(NewCidV1(CarCodec, MultihashSumIdentity(a)))

(***************************************************************************)
(* What delegation.Parse (go-ucanto) undoes: multibase, CID, multihash.    *)
(***************************************************************************)
Base64PadPrefix == 77   \* 'M', multibase.Base64pad

\* multibase.Decode: the first character names the base.
MultibaseDecode(text) ==
    IF Len(text) = 0 THEN [ok |-> FALSE, bytes |-> <<>>]
    ELSE IF text[1] = Base64Prefix THEN B64DecodeRaw(Tail(text))
    ELSE IF text[1] = Base64PadPrefix THEN B64DecodeStd(Tail(text))
    ELSE [ok |-> FALSE, bytes |-> <<>>]

\* cid.Cast then multihash.Decode: [ok, codec, code, digest].  The digest must
\* be exactly as long as the multihash says, with nothing after it.
CidCast(bytes) ==
    LET bad == [ok |-> FALSE, codec |-> 0, code |-> 0, digest |-> <<>>]
        v == Uvarint(bytes)
        c == Uvarint(v.rest)
        h == Uvarint(c.rest)
        l == Uvarint(h.rest)
    IN  IF ~v.ok \/ v.value # CidVersion THEN bad
        ELSE IF ~c.ok \/ ~h.ok \/ ~l.ok THEN bad
        ELSE IF Len(l.rest) # l.value THEN bad
        ELSE [ok |-> TRUE, codec |-> c.value, code |-> h.value, digest |-> l.rest]

\* The digest of an identity CAR CID, as delegation.Parse reads it: [ok, digest].
DecodeIdentityCid(text) ==
    LET m == MultibaseDecode(text)
        c == CidCast(m.bytes)
    IN  IF m.ok /\ c.ok /\ c.codec = CarCodec /\ c.code = IDENTITY
        THEN [ok |-> TRUE, digest |-> c.digest]
        ELSE [ok |-> FALSE, digest |-> <<>>]

(***************************************************************************)
(* Principals, abilities and the delegation block codec.                   *)
(***************************************************************************)
IssuerKeyDid == "did:key:z6MkIssuer"
IssuerWebDid == "did:web:example.com"
AudienceDid == "did:key:z6MkAudience"
UcanVersion == "0.9.1"

\* The --capabilities values tried: known abilities, unknown ones, one that
\* differs from a known one in letter case only, and the wildcard.
AbilityInputs ==
    {"blob/allocate", "blob/accept", "claim/cache", "x/y", "z/w", "Blob/Accept", "*/*"}

\* Every string a delegation of the model carries; a string's code is its place.
StringTable ==
    <<"", IssuerKeyDid, IssuerWebDid, AudienceDid, UcanVersion,
      "blob/allocate", "blob/accept", "claim/cache", "x/y", "z/w", "Blob/Accept", "*/*",
      "nonce-1", "fact-a", "fact-b">>

StrCode(s) == CHOOSE i \in 1..Len(StringTable) : StringTable[i] = s

RECURSIVE SumBytes(_)
SumBytes(bytes) == IF Len(bytes) = 0 THEN 0 ELSE Head(bytes) + SumBytes(Tail(bytes))

RECURSIVE Flatten(_)
Flatten(ss) == IF Len(ss) = 0 THEN <<>> ELSE Head(ss) \o Flatten(Tail(ss))

\* The fields the signature covers, as bytes.
EncodePayload(d) ==
    <<StrCode(d.issuer), StrCode(d.audience), StrCode(d.version)>>
    \o (IF d.expiration = None THEN <<0, 0>> ELSE <<1, d.expiration[1]>>)
    \o <<d.notBefore, StrCode(d.nonce)>>
    \o <<Len(d.facts)>> \o [i \in 1..Len(d.facts) |-> StrCode(d.facts[i])]
    \o <<Len(d.capabilities)>>
    \o Flatten([i \in 1..Len(d.capabilities) |->
                  <<StrCode(d.capabilities[i].can), StrCode(d.capabilities[i].with)>>])
    \o <<Len(d.proofs)>> \o d.proofs

\* The signer: a signature over the payload, never empty.
Sign(key, payload) == <<StrCode(key), SumBytes(payload) % 256>>

\* The block of one delegation: payload, then the signature with its length.
EncodeBlock(d) == EncodePayload(d) \o <<Len(d.signature)>> \o d.signature

\* The link (content identifier) of a block.
LinkOf(block) == (SumBytes(block) + 7 * Len(block)) % 256

\* Delegation.Archive(): the number of blocks, then each block after its
\* length: the root first, then the blocks the delegation holds.
Archive(d) ==
    LET all == <<EncodeBlock(d)>> \o d.blocks
    IN  PutUvarint(Len(all))
        \o Flatten([i \in 1..Len(all) |-> PutUvarint(Len(all[i])) \o all[i]])

DecodeFailed == [ok |-> FALSE, d |-> None]

\* The inverse of EncodeBlock: [ok, d].
DecodeBlock(b) ==
    LET n == Len(b)
        InTable(c) == c >= 1 /\ c <= Len(StringTable)
        nFacts == b[8]
        pCaps == 9 + nFacts                 \* where the capability count is
        nCaps == b[pCaps]
        pProofs == pCaps + 1 + 2 * nCaps    \* where the proof count is
        nProofs == b[pProofs]
        pSig == pProofs + 1 + nProofs       \* where the signature length is
    IN  IF n < 8 \/ ~InTable(b[1]) \/ ~InTable(b[2]) \/ ~InTable(b[3])
           \/ b[4] \notin {0, 1} \/ ~InTable(b[7]) THEN DecodeFailed
        ELSE IF n < pCaps \/ \E i \in 9..(8 + nFacts) : ~InTable(b[i]) THEN DecodeFailed
        ELSE IF n < pProofs
                \/ \E i \in (pCaps + 1)..(pCaps + 2 * nCaps) : ~InTable(b[i])
             THEN DecodeFailed
        ELSE IF n < pSig THEN DecodeFailed
        ELSE IF n # pSig + b[pSig] THEN DecodeFailed
        ELSE [ok |-> TRUE,
              d |-> Some([issuer |-> StringTable[b[1]],
                          audience |-> StringTable[b[2]],
                          version |-> StringTable[b[3]],
                          expiration |-> IF b[4] = 0 THEN None ELSE Some(b[5]),
                          notBefore |-> b[6],
                          nonce |-> StringTable[b[7]],
                          facts |-> [i \in 1..nFacts |-> StringTable[b[8 + i]]],
                          capabilities |->
                              [i \in 1..nCaps |->
                                  [can |-> StringTable[b[pCaps + 2 * i - 1]],
                                   with |-> StringTable[b[pCaps + 2 * i]]]],
                          proofs |-> SubSeq(b, pProofs + 1, pProofs + nProofs),
                          signature |-> Drop(b, pSig),
                          blocks |-> <<>>])]

\* The blocks of an archive after its count: [ok, blocks].
RECURSIVE ReadBlocks(_, _)
ReadBlocks(bytes, count) ==
    IF count = 0 THEN [ok |-> Len(bytes) = 0, blocks |-> <<>>]
    ELSE LET l == Uvarint(bytes)
         IN  IF ~l.ok \/ Len(l.rest) < l.value THEN [ok |-> FALSE, blocks |-> <<>>]
             ELSE LET r == ReadBlocks(Drop(l.rest, l.value), count - 1)
                  IN  [ok |-> r.ok, blocks |-> <<Take(l.rest, l.value)>> \o r.blocks]

\* delegation.Extract: the root delegation of an archive, holding the
\* archive's other blocks: [ok, d].
Extract(a) ==
    LET k == Uvarint(a)
        r == ReadBlocks(k.rest, k.value)
        root == DecodeBlock(r.blocks[1])
    IN  IF ~k.ok \/ k.value < 1 \/ ~r.ok THEN DecodeFailed
        ELSE IF ~root.ok THEN DecodeFailed
        ELSE [ok |-> TRUE, d |-> Some([root.d[1] EXCEPT !.blocks = Tail(r.blocks)])]

\* delegation.Parse (go-ucanto): a base-encoded identity CAR CID to its delegation.
LibParse(text) ==
    LET c == DecodeIdentityCid(text)
    IN  IF c.ok THEN Extract(c.digest) ELSE DecodeFailed

(***************************************************************************)
(* pkg/delegation: MakeDelegation, DelegationInfo, ParseDelegationContent. *)
(***************************************************************************)
WithExpiration(e) == [name |-> "WithExpiration", exp |-> e]
WithNoExpiration == [name |-> "WithNoExpiration", exp |-> 0]

\* delegation.Delegate (go-ucanto): the options applied in order, the payload
\* signed by the issuer.  Without an expiration option the token expires 30
\* seconds from the clock.
Delegate(iss, aud, uc, options, clock) ==
    LET RECURSIVE Exp(_, _)
        Exp(i, acc) ==
            IF i > Len(options) THEN acc
            ELSE IF options[i].name = "WithNoExpiration" THEN Exp(i + 1, None)
            ELSE Exp(i + 1, Some(options[i].exp))
        unsigned == [issuer |-> iss.did, audience |-> aud, version |-> UcanVersion,
                     capabilities |-> uc, expiration |-> Exp(1, Some(clock + 30)),
                     notBefore |-> 0, nonce |-> "", facts |-> <<>>,
                     proofs |-> <<>>, signature |-> <<>>, blocks |-> <<>>]
    IN  [unsigned EXCEPT !.signature = Sign(iss.key, EncodePayload(unsigned))]

\* Variant: the capabilities on the audience's DID.
MakeDelegationOnAudience(iss, aud, capabilities, options, clock) ==
    LET uc == [i \in 1..Len(capabilities) |->
                  [can |-> capabilities[i], with |-> aud]]
    IN  Delegate(iss, aud, uc, options, clock)

\* MakeDelegation: one capability per ability, in order, each on the issuer's DID.
MakeDelegation(iss, aud, capabilities, options, clock) ==
    LET uc == [i \in 1..Len(capabilities) |->
                  [can |-> capabilities[i], with |-> iss.did]]
    IN  Delegate(iss, aud, uc, options, clock)

\* Variant: Expiration a plain integer, 0 when the delegation has none.
FlatInfoIntExpiration(d) ==
    [Issuer |-> d.issuer,
     Audience |-> d.audience,
     Version |-> d.version,
     Expiration |-> IF d.expiration = None THEN Some(0) ELSE d.expiration,
     NotBefore |-> d.notBefore,
     Nonce |-> d.nonce,
     Proofs |-> d.proofs,
     ProofDelegations |-> <<>>,
     Signature |-> d.signature,
     Capabilities |-> [i \in 1..Len(d.capabilities) |->
                          [With |-> d.capabilities[i].with,
                           Can |-> d.capabilities[i].can]],
     Facts |-> d.facts]

\* Variant: the signature is not copied.
FlatInfoNoSignature(d) ==
    [Issuer |-> d.issuer,
     Audience |-> d.audience,
     Version |-> d.version,
     Expiration |-> d.expiration,
     NotBefore |-> d.notBefore,
     Nonce |-> d.nonce,
     Proofs |-> d.proofs,
     ProofDelegations |-> <<>>,
     Signature |-> <<>>,
     Capabilities |-> [i \in 1..Len(d.capabilities) |->
                          [With |-> d.capabilities[i].with,
                           Can |-> d.capabilities[i].can]],
     Facts |-> d.facts]

\* The flat fields of DelegationInfo, copied from the delegation.
FlatInfo(d) ==
    [Issuer |-> d.issuer,
     Audience |-> d.audience,
     Version |-> d.version,
     Expiration |-> d.expiration,
     NotBefore |-> d.notBefore,
     Nonce |-> d.nonce,
     Proofs |-> d.proofs,
     ProofDelegations |-> <<>>,
     Signature |-> d.signature,
     Capabilities |-> [i \in 1..Len(d.capabilities) |->
                          [With |-> d.capabilities[i].with,
                           Can |-> d.capabilities[i].can]],
     Facts |-> d.facts]

\* proof.Delegation() of the proofs view: the delegation a link resolves to
\* in the blocks the delegation holds, [ok, d].
ProofDelegation(link, blocks) ==
    LET found == SelectSeq(blocks, LAMBDA b : LinkOf(b) = link)
        r == DecodeBlock(found[1])
    IN  IF Len(found) = 0 \/ ~r.ok THEN DecodeFailed
        ELSE [ok |-> TRUE, d |-> Some([r.d[1] EXCEPT !.blocks = blocks])]

\* Variant: each proof delegation is put before the ones already there.
RECURSIVE parseDelegationToDelegationInfoPrepend(_)
parseDelegationToDelegationInfoPrepend(d) ==
    LET RECURSIVE Children(_)
        Children(i) ==
            IF i > Len(d.proofs) THEN <<>>
            ELSE LET p == ProofDelegation(d.proofs[i], d.blocks)
                 IN  IF ~p.ok THEN Children(i + 1)
                     ELSE Children(i + 1)
                          \o <<parseDelegationToDelegationInfoPrepend(p.d[1])>>
    IN  [FlatInfo(d) EXCEPT !.ProofDelegations = Children(1)]

\* parseDelegationToDelegationInfo: the flat fields, then every proof that
\* resolves to a delegation, recursively, in proof order.
RECURSIVE parseDelegationToDelegationInfo(_)
parseDelegationToDelegationInfo(d) ==
    LET RECURSIVE Children(_)
        Children(i) ==
            IF i > Len(d.proofs) THEN <<>>
            ELSE LET p == ProofDelegation(d.proofs[i], d.blocks)
                 IN  IF ~p.ok THEN Children(i + 1)
                     ELSE <<parseDelegationToDelegationInfo(p.d[1])>> \o Children(i + 1)
    IN  [FlatInfo(d) EXCEPT !.ProofDelegations = Children(1)]

\* strings.TrimSpace
IsSpace(c) == c \in {9, 10, 11, 12, 13, 32}

RECURSIVE TrimLeft(_)
TrimLeft(t) == IF Len(t) > 0 /\ IsSpace(Head(t)) THEN TrimLeft(Tail(t)) ELSE t

RECURSIVE TrimRight(_)
TrimRight(t) ==
    IF Len(t) > 0 /\ IsSpace(t[Len(t)]) THEN TrimRight(Take(t, Len(t) - 1)) ELSE t

\* Variant: only the whitespace before the text is cut.
TrimSpaceLeading(t) == TrimLeft(t)

TrimSpace(t) == TrimRight(TrimLeft(t))

\* Variant: the decoded content is not parsed again.
ParseDelegationContentNoRetry(text) ==
    LET trimmed == TrimSpace(text)
        direct == LibParse(trimmed)
        decoded == B64DecodeStd(trimmed)
    IN  IF direct.ok
        THEN [info |-> Some(parseDelegationToDelegationInfo(direct.d[1])),
              err |-> "", fallback |-> FALSE, calls |-> <<trimmed>>]
        ELSE IF ~decoded.ok
        THEN [info |-> None, err |-> "failed to decode base64 content",
              fallback |-> TRUE, calls |-> <<trimmed>>]
        ELSE [info |-> None,
              err |-> "failed to import delegation from decoded content",
              fallback |-> TRUE, calls |-> <<trimmed>>]

\* ParseDelegationContent: [info, err, fallback, calls].  The text is trimmed
\* and parsed; if that fails it is base64-decoded and the result parsed once.
\* calls lists the texts handed to delegation.Parse, in order.
ParseDelegationContent(text) ==
    LET trimmed == TrimSpace(text)
        direct == LibParse(trimmed)
        decoded == B64DecodeStd(trimmed)
        second == LibParse(decoded.bytes)
    IN  IF direct.ok
        THEN [info |-> Some(parseDelegationToDelegationInfo(direct.d[1])),
              err |-> "", fallback |-> FALSE, calls |-> <<trimmed>>]
        ELSE IF ~decoded.ok
        THEN [info |-> None, err |-> "failed to decode base64 content",
              fallback |-> TRUE, calls |-> <<trimmed>>]
        ELSE IF ~second.ok
        THEN [info |-> None,
              err |-> "failed to import delegation from decoded content",
              fallback |-> TRUE, calls |-> <<trimmed, decoded.bytes>>]
        ELSE [info |-> Some(parseDelegationToDelegationInfo(second.d[1])),
              err |-> "", fallback |-> TRUE, calls |-> <<trimmed, decoded.bytes>>]

(***************************************************************************)
(* cmd/gen.go: the known capabilities and their validation.                *)
(***************************************************************************)
KnownCapabilities ==
    {"assert/equals", "assert/relation", "assert/partition", "assert/index",
     "assert/inclusion", "assert/location", "blob/accept", "blob/allocate",
     "claim/cache", "http/put", "pdp/accept", "pdp/info", "space/blob/add",
     "space/blob/get", "space/blob/list", "space/blob/remove",
     "space/blob/replicate", "ucan/conclude"}

\* Variant: the loop returns at the first unknown ability.
validateCapabilityFirstOnly(capabilities, knownMap) ==
    LET unknown == SelectSeq(capabilities, LAMBDA a : a \notin knownMap)
    IN  IF Len(unknown) = 0 THEN <<>> ELSE <<unknown[1]>>

\* Variant: the lookup ignores letter case.
validateCapabilityFoldCase(capabilities, knownMap) ==
    LET Lower(a) == IF a = "Blob/Accept" THEN "blob/accept" ELSE a
    IN  SelectSeq(capabilities, LAMBDA a : Lower(a) \notin knownMap)

\* validateCapability: the loop over the whole list, appending one error per
\* ability the map does not hold; the error is named by its ability.
validateCapability(capabilities, knownMap) ==
    LET RECURSIVE Loop(_, _)
        Loop(i, acc) ==
            IF i > Len(capabilities) THEN acc
            ELSE IF capabilities[i] \notin knownMap
                 THEN Loop(i + 1, Append(acc, capabilities[i]))
                 ELSE Loop(i + 1, acc)
    IN  Loop(1, <<>>)

(***************************************************************************)
(* cmd/gen.go: the gen command.                                            *)
(***************************************************************************)
DefaultFlags ==
    [issuerPrivateKeyFile |-> "", issuerPrivateKey |-> "", issuerDidWebKey |-> "",
     audienceDidKey |-> "", capabilities |-> <<>>,
     skipCapabilityValidation |-> FALSE,
     expirationGiven |-> FALSE,     \* whether --expiration is on the command line
     expiration |-> 0]

\* The abilities given to gen: --capabilities is a string array, each value
\* taken as it is written, the empty string (-c "") included.
GenAbilities == {"blob/allocate", "blob/accept", "x/y", "*/*", ""}

\* The command lines tried.  A flag that is not given keeps its default.
FlagSpace ==
    {f \in [issuerPrivateKeyFile : {"", "issuer.pem", "broken.pem"},
            issuerPrivateKey : {"", "MgIssuerKey", "notakey"},
            issuerDidWebKey : {"", IssuerWebDid, "example.com"},
            audienceDidKey : {"", AudienceDid, "not-a-did"},
            capabilities : SeqsUpTo(GenAbilities, MaxCaps),
            skipCapabilityValidation : BOOLEAN,
            expirationGiven : BOOLEAN,
            expiration : (-1)..(MaxNow + 1)] :
        ~f.expirationGiven => f.expiration = DefaultFlags.expiration}

\* did.Parse succeeds on these.
ValidDids == {IssuerKeyDid, IssuerWebDid, AudienceDid}

\* strings.HasPrefix(s, "did:web:")
HasDidWebPrefix(s) == s \in {IssuerWebDid}

Fail(msg) ==
    /\ pc' = "failed"
    /\ err' = msg

\* cobra sets the flag variables from the command line.
ParseFlags ==
    /\ pc = "start"
    /\ flags' \in FlagSpace
    /\ pc' = "flags"
    /\ UNCHANGED <<opts, now, issuer, audience, deleg, signCalls, stdout, err,
                   info, known, abilities, errs, archive, formatted, digest,
                   content, calls, stack, g3vars>>

\* Variant: the capabilities flag is not marked required.
FlagsValidCapsOptional(f) ==
    /\ ~(f.issuerPrivateKeyFile # "" /\ f.issuerPrivateKey # "")
    /\ f.issuerPrivateKeyFile # "" \/ f.issuerPrivateKey # ""
    /\ f.audienceDidKey # ""

\* The flag groups declared in init(): one of the two key flags, not both;
\* the audience and the capabilities are required.
FlagsValid(f) ==
    /\ ~(f.issuerPrivateKeyFile # "" /\ f.issuerPrivateKey # "")
    /\ f.issuerPrivateKeyFile # "" \/ f.issuerPrivateKey # ""
    /\ f.audienceDidKey # ""
    /\ Len(f.capabilities) > 0

ValidateFlags ==
    /\ pc = "flags"
    /\ IF FlagsValid(flags)
       THEN pc' = "issuer" /\ err' = err
       ELSE Fail("flag validation")
    /\ UNCHANGED <<flags, opts, now, issuer, audience, deleg, signCalls, stdout,
                   info, known, abilities, errs, archive, formatted, digest,
                   content, calls, stack, g3vars>>

\* mkDelegation, lines 67-80: the issuer's key, from the file or the flag.
ParseIssuer ==
    /\ pc = "issuer"
    /\ IF flags.issuerPrivateKeyFile # ""
       THEN IF flags.issuerPrivateKeyFile = "issuer.pem"
            THEN /\ issuer' = Some([did |-> IssuerKeyDid, key |-> IssuerKeyDid])
                 /\ pc' = "didweb" /\ err' = err
            ELSE issuer' = issuer /\ Fail("parsing issuer private key from file")
       ELSE IF flags.issuerPrivateKey = "MgIssuerKey"
            THEN /\ issuer' = Some([did |-> IssuerKeyDid, key |-> IssuerKeyDid])
                 /\ pc' = "didweb" /\ err' = err
            ELSE issuer' = issuer /\ Fail("parsing issuer private key")
    /\ UNCHANGED <<flags, opts, now, audience, deleg, signCalls, stdout,
                   info, known, abilities, errs, archive, formatted, digest,
                   content, calls, stack, g3vars>>

\* mkDelegation, lines 82-94: the issuer wrapped with its did:web.
WrapDidWeb ==
    /\ pc = "didweb"
    /\ IF flags.issuerDidWebKey = ""
       THEN issuer' = issuer /\ pc' = "audience" /\ err' = err
       ELSE IF ~HasDidWebPrefix(flags.issuerDidWebKey)
       THEN issuer' = issuer /\ Fail("issuer did:web: must start with 'did:web:' prefix")
       ELSE IF flags.issuerDidWebKey \notin ValidDids
       THEN issuer' = issuer /\ Fail("parsing issuer did web key")
       ELSE /\ issuer' = Some([issuer[1] EXCEPT !.did = flags.issuerDidWebKey])
            /\ pc' = "audience" /\ err' = err
    /\ UNCHANGED <<flags, opts, now, audience, deleg, signCalls, stdout,
                   info, known, abilities, errs, archive, formatted, digest,
                   content, calls, stack, g3vars>>

\* Variant: a failed audience parse is reported and the run goes on.
ParseAudienceLenient ==
    /\ pc = "audience"
    /\ IF flags.audienceDidKey \in ValidDids
       THEN audience' = Some(flags.audienceDidKey) /\ pc' = "validate" /\ err' = err
       ELSE /\ audience' = Some(flags.audienceDidKey)
            /\ pc' = "validate" /\ err' = "parsing audience did key"
    /\ UNCHANGED <<flags, opts, now, issuer, deleg, signCalls, stdout,
                   info, known, abilities, errs, archive, formatted, digest,
                   content, calls, stack, g3vars>>

\* mkDelegation, lines 96-99.
ParseAudience ==
    /\ pc = "audience"
    /\ IF flags.audienceDidKey \in ValidDids
       THEN audience' = Some(flags.audienceDidKey) /\ pc' = "validate" /\ err' = err
       ELSE audience' = audience /\ Fail("parsing audience did key")
    /\ UNCHANGED <<flags, opts, now, issuer, deleg, signCalls, stdout,
                   info, known, abilities, errs, archive, formatted, digest,
                   content, calls, stack, g3vars>>

\* Variant: the capabilities are never validated.
ValidateCapabilitiesUngated ==
    /\ pc = "validate"
    /\ errs' = errs /\ pc' = "expiration" /\ err' = err
    /\ UNCHANGED <<flags, opts, now, issuer, audience, deleg, signCalls, stdout,
                   info, known, abilities, archive, formatted, digest,
                   content, calls, stack, g3vars>>

\* mkDelegation, lines 101-108.
ValidateCapabilities ==
    /\ pc = "validate"
    /\ IF ~flags.skipCapabilityValidation
       THEN /\ errs' = validateCapability(flags.capabilities, known)
            /\ IF errs' # <<>>
               THEN Fail("capabilities validation failed")
               ELSE pc' = "expiration" /\ err' = err
       ELSE errs' = errs /\ pc' = "expiration" /\ err' = err
    /\ UNCHANGED <<flags, opts, now, issuer, audience, deleg, signCalls, stdout,
                   info, known, abilities, archive, formatted, digest,
                   content, calls, stack, g3vars>>

ExpirationInPast == "provided expiration time is in the past"

\* Variant: an expiration equal to the current time is rejected too.
InThePastOrNow(t, e) == t >= e

\* Variant: an expiration one second old is let through.
InThePastByTwo(t, e) == t > e + 1

\* time.Now().Unix() > expiration
InThePast(t, e) == t > e

\* Variant: every expiration but 0 is compared with the current time.
CheckExpirationNonZero ==
    /\ pc = "expiration"
    /\ \E t \in 2..MaxNow :
          /\ now' = t
          /\ IF flags.expiration # 0
             THEN IF InThePast(t, flags.expiration)
                  THEN opts' = opts /\ Fail(ExpirationInPast)
                  ELSE /\ opts' = Append(opts, WithExpiration(flags.expiration))
                       /\ pc' = "build" /\ err' = err
             ELSE /\ opts' = Append(opts, WithNoExpiration)
                  /\ pc' = "build" /\ err' = err
    /\ UNCHANGED <<flags, issuer, audience, deleg, signCalls, stdout,
                   info, known, abilities, errs, archive, formatted, digest,
                   content, calls, stack, g3vars>>

\* mkDelegation, lines 110-118.  now records the Unix time at this step (any
\* time from 2 on); the code compares it with a positive expiration only.
CheckExpiration ==
    /\ pc = "expiration"
    /\ \E t \in 2..MaxNow :
          /\ now' = t
          /\ IF flags.expiration > 0
             THEN IF InThePast(t, flags.expiration)
                  THEN opts' = opts /\ Fail(ExpirationInPast)
                  ELSE /\ opts' = Append(opts, WithExpiration(flags.expiration))
                       /\ pc' = "build" /\ err' = err
             ELSE /\ opts' = Append(opts, WithNoExpiration)
                  /\ pc' = "build" /\ err' = err
    /\ UNCHANGED <<flags, issuer, audience, deleg, signCalls, stdout,
                   info, known, abilities, errs, archive, formatted, digest,
                   content, calls, stack, g3vars>>

\* The errors delegation.Delegate returns when the signer fails.
SignerErrors == {"signer unavailable", "key rejected"}

\* fmt.Errorf("making delegation: %w", err)
MakingDelegation(cause) == "making delegation: " \o cause

\* Variant: the signer's error is dropped and the unsigned delegation kept.
BuildUnsigned ==
    /\ pc = "build"
    /\ \E outcome \in {""} \cup SignerErrors :
          /\ deleg' = Some([MakeDelegation(issuer[1], audience[1],
                                           flags.capabilities, opts, now)
                              EXCEPT !.signature = IF outcome = "" THEN @ ELSE <<>>])
          /\ signCalls' = IF outcome = "" THEN signCalls + 1 ELSE signCalls
          /\ pc' = "format" /\ err' = err
    /\ UNCHANGED <<flags, opts, now, issuer, audience, stdout,
                   info, known, abilities, errs, archive, formatted, digest,
                   content, calls, stack, g3vars>>

\* mkDelegation, lines 120-123: the delegation is made and signed, unless the
\* signer fails; MakeDelegation returns Delegate's error as it is, and the
\* command returns it wrapped.
Build ==
    /\ pc = "build"
    /\ \E outcome \in {""} \cup SignerErrors :
          IF outcome = ""
          THEN /\ deleg' = Some(MakeDelegation(issuer[1], audience[1],
                                               flags.capabilities, opts, now))
               /\ signCalls' = signCalls + 1
               /\ pc' = "format" /\ err' = err
          ELSE /\ deleg' = deleg /\ signCalls' = signCalls
               /\ Fail(MakingDelegation(outcome))
    /\ UNCHANGED <<flags, opts, now, issuer, audience, stdout,
                   info, known, abilities, errs, archive, formatted, digest,
                   content, calls, stack, g3vars>>

\* mkDelegation, line 125: FormatDelegation reads the archive and formats it.
Format ==
    /\ pc = "format"
    /\ archive' = Archive(deleg[1])
    /\ formatted' = FormatDelegationBytes(archive')
    /\ pc' = "print"
    /\ UNCHANGED <<flags, opts, now, issuer, audience, deleg, signCalls, stdout,
                   err, info, known, abilities, errs, digest,
                   content, calls, stack, g3vars>>

\* mkDelegation, line 129: fmt.Println.
PrintOut ==
    /\ pc = "print"
    /\ stdout' = Append(stdout, formatted \o <<10>>)
    /\ pc' = "done"
    /\ UNCHANGED <<flags, opts, now, issuer, audience, deleg, signCalls,
                   err, info, known, abilities, errs, archive, formatted, digest,
                   content, calls, stack, g3vars>>

\* The parse command reading what gen printed (gen ... | mkdelegation parse).
ParseCommand ==
    /\ pc = "done"
    /\ LET stdinData == Flatten(stdout)
           r == ParseDelegationContent(stdinData)
       IN  IF Len(stdinData) = 0
           THEN info' = info /\ pc' = "parse failed" /\ err' = "no input provided"
           ELSE /\ info' = r.info
                /\ err' = r.err
                /\ pc' = IF r.err = "" THEN "parsed" ELSE "parse failed"
    /\ UNCHANGED <<flags, opts, now, issuer, audience, deleg, signCalls, stdout,
                   known, abilities, errs, archive, formatted, digest,
                   content, calls, stack, g3vars>>

Init ==
    /\ pc = "start"
    /\ flags = DefaultFlags
    /\ opts = <<>>
    /\ now = 0
    /\ issuer = None
    /\ audience = None
    /\ deleg = None
    /\ signCalls = 0
    /\ stdout = <<>>
    /\ err = ""
    /\ info = None
    /\ known = KnownCapabilities
    /\ abilities = <<>>
    /\ errs = <<>>
    /\ archive = <<>>
    /\ formatted = <<>>
    /\ digest = None
    /\ content = <<>>
    /\ calls = <<>>
    /\ stack = <<>>
    /\ NoGenerator

Next ==
    \/ ParseFlags
    \/ ValidateFlags
    \/ ParseIssuer
    \/ WrapDidWeb
    \/ ParseAudience
    \/ ValidateCapabilities
    \/ CheckExpiration
    \/ Build
    \/ Format
    \/ PrintOut
    \/ ParseCommand

Spec == Init /\ [][Next]_vars

(***************************************************************************)
(* validateCapability alone, on every list of abilities up to MaxAbilities.*)
(***************************************************************************)
InitValidate ==
    /\ pc = "validate"
    /\ abilities \in SeqsUpTo(AbilityInputs, MaxAbilities)
    /\ known = KnownCapabilities
    /\ errs = <<>>
    /\ flags = DefaultFlags /\ opts = <<>> /\ now = 0 /\ issuer = None
    /\ audience = None /\ deleg = None /\ signCalls = 0 /\ stdout = <<>>
    /\ err = "" /\ info = None /\ archive = <<>> /\ formatted = <<>>
    /\ digest = None
    /\ content = <<>> /\ calls = <<>> /\ stack = <<>>
    /\ NoGenerator

Validate ==
    /\ pc = "validate"
    /\ errs' = validateCapability(abilities, known)
    /\ pc' = "validated"
    /\ UNCHANGED <<flags, opts, now, issuer, audience, deleg, signCalls, stdout,
                   err, info, known, abilities, archive, formatted, digest,
                   content, calls, stack, g3vars>>

NextValidate == Validate

SpecValidate == InitValidate /\ [][NextValidate]_vars

(***************************************************************************)
(* FormatDelegationBytes alone, and the identity-hash decoding of its      *)
(* result, on every archive up to MaxArchiveLen and on one long archive.   *)
(***************************************************************************)
ArchiveBytes == {0, 1, 127, 128, 255}
LongLen == 130        \* an archive whose length takes a two-byte varint
LongArchive == [i \in 1..LongLen |-> (i * 7) % 256]

InitFormat ==
    /\ pc = "format"
    /\ archive \in SeqsUpTo(ArchiveBytes, MaxArchiveLen) \cup {LongArchive}
    /\ formatted = <<>>
    /\ digest = None
    /\ flags = DefaultFlags /\ opts = <<>> /\ now = 0 /\ issuer = None
    /\ audience = None /\ deleg = None /\ signCalls = 0 /\ stdout = <<>>
    /\ err = "" /\ info = None /\ known = KnownCapabilities
    /\ abilities = <<>> /\ errs = <<>>
    /\ content = <<>> /\ calls = <<>> /\ stack = <<>>
    /\ NoGenerator

FormatArchive ==
    /\ pc = "format"
    /\ formatted' = FormatDelegationBytes(archive)
    /\ pc' = "formatted"
    /\ UNCHANGED <<flags, opts, now, issuer, audience, deleg, signCalls, stdout,
                   err, info, known, abilities, errs, archive, digest,
                   content, calls, stack, g3vars>>

\* The formatted text decoded as a content identifier with the identity hash.
DecodeFormatted ==
    /\ pc = "formatted"
    /\ LET r == DecodeIdentityCid(formatted)
       IN  digest' = IF r.ok THEN Some(r.digest) ELSE None
    /\ pc' = "decoded"
    /\ UNCHANGED <<flags, opts, now, issuer, audience, deleg, signCalls, stdout,
                   err, info, known, abilities, errs, archive, formatted,
                   content, calls, stack, g3vars>>

NextFormat == FormatArchive \/ DecodeFormatted

SpecFormat == InitFormat /\ [][NextFormat]_vars

(***************************************************************************)
(* ParseDelegationContent alone (the parse command's input), on the        *)
(* formatted archives of delegations that carry proofs, on the same text   *)
(* wrapped in whitespace or in base64, and on text that is no delegation.  *)
(***************************************************************************)
MaxProofs == 3        \* longest proof list of a delegation that is resolved
MaxTextProofs == 2    \* longest proof list of a delegation parsed from text
DeepChain == 100      \* nested proofs of the long chain
MaxResolves == 2      \* calls of parseDelegationToDelegationInfo on a delegation
MaxFairProofs == 1    \* proofs of a delegation whose resolution is followed to its end

\* A delegation as any UCAN tool issues it: one capability on the issuer's
\* DID, the given proof links, signed by the issuer.
Issued(iss, aud, can, nb, proofs) ==
    LET unsigned == [issuer |-> iss, audience |-> aud, version |-> UcanVersion,
                     capabilities |-> <<[can |-> can, with |-> iss]>>,
                     expiration |-> None, notBefore |-> nb, nonce |-> "",
                     facts |-> <<>>, proofs |-> proofs, signature |-> <<>>,
                     blocks |-> <<>>]
    IN  [unsigned EXCEPT !.signature = Sign(iss, EncodePayload(unsigned))]

\* The link by which a delegation is named as a proof.
Link(d) == LinkOf(EncodeBlock(d))

\* Two delegations without proofs, and two that name them as proofs.
LeafC == Issued(IssuerWebDid, IssuerKeyDid, "claim/cache", 0, <<>>)
LeafD == Issued(IssuerWebDid, IssuerKeyDid, "blob/allocate", 0, <<>>)
MidB == Issued(IssuerKeyDid, AudienceDid, "blob/accept", 0, <<Link(LeafC)>>)
MidE == Issued(IssuerKeyDid, AudienceDid, "x/y", 0, <<Link(LeafD), Link(LeafC)>>)

\* A block that is no delegation, and the link of a block no archive holds.
GarbageBlock == <<0, 0, 0>>
MissingLink == LinkOf(<<1>>)

ProofLinks ==
    {Link(MidB), Link(MidE), Link(LeafC), Link(LeafD), LinkOf(GarbageBlock),
     MissingLink}

StoreBlocks ==
    <<EncodeBlock(MidB), EncodeBlock(MidE), EncodeBlock(LeafC), EncodeBlock(LeafD),
      GarbageBlock>>

\* The blocks an archive holds beside its root: those of StoreBlocks at the
\* places in S, in order.
RECURSIVE StoreFrom(_, _)
StoreFrom(S, i) ==
    IF i > Len(StoreBlocks) THEN <<>>
    ELSE (IF i \in S THEN <<StoreBlocks[i]>> ELSE <<>>) \o StoreFrom(S, i + 1)

\* The delegation an archive is rooted at: the given proofs, holding the
\* given blocks.
RootA(proofs, store) ==
    [Issued(AudienceDid, IssuerKeyDid, "z/w", 0, proofs) EXCEPT !.blocks = store]

\* A delegation with every field set: two capabilities, one of them on
\* another resource than the issuer's DID, an expiration, a notBefore, a
\* nonce and two facts.
Detailed(iss, aud, exp, proofs) ==
    LET unsigned == [issuer |-> iss, audience |-> aud, version |-> UcanVersion,
                     capabilities |-> <<[can |-> "claim/cache", with |-> aud],
                                        [can |-> "blob/accept", with |-> iss]>>,
                     expiration |-> exp, notBefore |-> 2, nonce |-> "nonce-1",
                     facts |-> <<"fact-b", "fact-a">>, proofs |-> proofs,
                     signature |-> <<>>, blocks |-> <<>>]
    IN  [unsigned EXCEPT !.signature = Sign(iss, EncodePayload(unsigned))]

\* Such a delegation without proofs, and the one an archive is rooted at,
\* which names it as its first proof, before a proof that is absent.
DetailedLeaf == Detailed(IssuerWebDid, IssuerKeyDid, Some(7), <<>>)

DetailedRoot(exp) ==
    [Detailed(IssuerKeyDid, AudienceDid, exp, <<Link(DetailedLeaf), MissingLink>>)
        EXCEPT !.blocks = <<EncodeBlock(DetailedLeaf)>>]

\* A chain of delegations, each naming the one before it as its only proof,
\* made m delegations longer.  The delegations differ in notBefore, by
\* which the one-byte links of the model stay distinct along the chain as
\* content identifiers do.
RECURSIVE ChainExtend(_, _)
ChainExtend(s, m) ==
    IF m = 0 \/ Len(s) = 0 THEN s
    ELSE IF m = 1
    THEN Append(s, Issued(IssuerKeyDid, AudienceDid, "blob/accept",
                          (355 - Len(s)) % 256, <<Link(s[Len(s)])>>))
    ELSE ChainExtend(ChainExtend(s, m \div 2), m - m \div 2)

\* A chain of n nested proofs: ChainSeq(n)[1] has no proof.
ChainSeq(n) ==
    ChainExtend(<<Issued(IssuerWebDid, IssuerKeyDid, "claim/cache", 0, <<>>)>>, n)

\* The top of the chain, holding the blocks of all the delegations under it.
ChainRoot(n) ==
    LET s == ChainSeq(n)
    IN  [s[n + 1] EXCEPT !.blocks = [i \in 1..n |-> EncodeBlock(s[n + 1 - i])]]

\* "!!!", "AAAA" and "mAAAA".
NotBase64 == <<33, 33, 33>>
Base64OfNothing == <<65, 65, 65, 65>>
MultibaseOfNothing == <<109, 65, 65, 65, 65>>

\* Texts that are no delegation.
BadContents ==
    {<<>>, NotBase64, Base64OfNothing, MultibaseOfNothing,
     B64EncodeStd(MultibaseOfNothing),
     FormatDelegationBytes(GarbageBlock),
     B64EncodeStd(FormatDelegationBytes(GarbageBlock)),
     <<32>> \o B64EncodeStd(FormatDelegationBytes(GarbageBlock)) \o <<10>>}

\* Whitespace before and after a text.
Leading == {<<>>, <<32, 9>>, <<11>>}
Trailing == {<<>>, <<13, 10>>, <<12>>}

\* The ways the text reaches the parse command: as printed or base64-encoded,
\* between whitespace or not.
Wrappings(text) ==
    {w1 \o text \o w2 : w1 \in Leading, w2 \in Trailing}
    \cup {B64EncodeStd(text), <<10>> \o B64EncodeStd(text) \o <<32>>}

InitParse ==
    /\ pc = "parse"
    /\ \/ /\ \E proofs \in SeqsUpTo(ProofLinks, MaxTextProofs) :
               \E k \in 0..Len(StoreBlocks) :
                   deleg = Some(RootA(proofs, StoreFrom(1..k, 1)))
          /\ archive = Archive(deleg[1])
          /\ formatted = FormatDelegationBytes(archive)
          /\ content \in Wrappings(formatted)
       \/ /\ deleg = None /\ archive = <<>> /\ formatted = <<>>
          /\ content \in BadContents
    /\ calls = <<>> /\ info = None /\ err = "" /\ stack = <<>>
    /\ NoGenerator
    /\ flags = DefaultFlags /\ opts = <<>> /\ now = 0 /\ issuer = None
    /\ audience = None /\ signCalls = 0 /\ stdout = <<>>
    /\ known = KnownCapabilities /\ abilities = <<>> /\ errs = <<>>
    /\ digest = None

\* ParseDelegationContent, called once on the content.
ParseContent ==
    /\ pc = "parse"
    /\ LET r == ParseDelegationContent(content)
       IN  /\ info' = r.info
           /\ err' = r.err
           /\ calls' = r.calls
           /\ pc' = IF r.err = "" THEN "parsed" ELSE "parse failed"
    /\ UNCHANGED <<flags, opts, now, issuer, audience, deleg, signCalls, stdout,
                   known, abilities, errs, archive, formatted, digest, content,
                   stack, g3vars>>

NextParse == ParseContent

SpecParse == InitParse /\ [][NextParse]_vars

(***************************************************************************)
(* parseDelegationToDelegationInfo alone, on the delegation that           *)
(* delegation.Parse returned: the root of an archive, holding the          *)
(* archive's other blocks.                                                 *)
(***************************************************************************)
InitResolve ==
    /\ pc = "resolve"
    /\ \/ \E proofs \in SeqsUpTo(ProofLinks, MaxProofs) :
              \E S \in SUBSET (1..Len(StoreBlocks)) :
                  deleg = Some(RootA(proofs, StoreFrom(S, 1)))
       \/ \E n \in {1, 2, DeepChain} : deleg = Some(ChainRoot(n))
       \/ \E exp \in {None, Some(5)} : deleg = Some(DetailedRoot(exp))
    /\ info = None /\ err = "" /\ stack = <<>>
    /\ NoGenerator
    /\ archive = <<>> /\ formatted = <<>> /\ content = <<>> /\ calls = <<>>
    /\ flags = DefaultFlags /\ opts = <<>> /\ now = 0 /\ issuer = None
    /\ audience = None /\ signCalls = 0 /\ stdout = <<>>
    /\ known = KnownCapabilities /\ abilities = <<>> /\ errs = <<>>
    /\ digest = None

\* One call of parseDelegationToDelegationInfo as it starts: its argument,
\* the proof its loop is at, and its result with the flat fields copied
\* (lines 56-79).  The delegation of a nested call is held without its
\* blocks: they are the blocks of the outermost one (see ReaderBlocks).
NewCall(d) == [d |-> d, i |-> 1, result |-> FlatInfo(d)]

\* The calls with the innermost one replaced.
WithTop(st, f) == [st EXCEPT ![Len(st)] = f]

\* Variant: a nested call reads only the blocks its own delegation holds.
ReaderBlocksInnermost(st) == st[Len(st)].d.blocks

\* deleg.Blocks() at lines 83-85: a delegation found by proof.Delegation()
\* reads the blocks of the reader it was found in, so every call of one
\* resolution reads the blocks of the outermost delegation.
ReaderBlocks(st) == st[1].d.blocks

\* The delegation the innermost call's next proof resolves to, [ok, d].
NextProof(st) ==
    LET top == st[Len(st)]
        p == ProofDelegation(top.d.proofs[top.i], ReaderBlocks(st))
    IN  IF p.ok THEN [ok |-> TRUE, d |-> Some([p.d[1] EXCEPT !.blocks = <<>>])]
        ELSE DecodeFailed

\* Variant: the loop ends at the first proof that does not resolve.
LoopStepBreak(st) ==
    LET top == st[Len(st)]
        p == NextProof(st)
    IN  IF ~p.ok THEN WithTop(st, [top EXCEPT !.i = Len(top.d.proofs) + 1])
        ELSE Append(st, NewCall(p.d[1]))

\* Variant: a proof that does not resolve is entered as an empty delegation.
LoopStepKeep(st) ==
    LET top == st[Len(st)]
        p == NextProof(st)
    IN  IF ~p.ok
        THEN Append(st, NewCall([top.d EXCEPT !.proofs = <<>>, !.capabilities = <<>>,
                                              !.blocks = <<>>]))
        ELSE Append(st, NewCall(p.d[1]))

\* Lines 86-92: the loop at its next proof.  A proof that does not resolve to
\* a delegation is passed over; one that does is parsed by a nested call.
LoopStep(st) ==
    LET top == st[Len(st)]
        p == NextProof(st)
    IN  IF ~p.ok THEN WithTop(st, [top EXCEPT !.i = top.i + 1])
        ELSE Append(st, NewCall(p.d[1]))

\* Variant: the nested result is put before the ones already there.
CallReturnPrepend(st) ==
    LET n == Len(st)
        parent == st[n - 1]
    IN  WithTop(Take(st, n - 1),
                [parent EXCEPT !.i = parent.i + 1,
                               !.result.ProofDelegations = <<st[n].result>> \o @])

\* Variant: the nested result is returned without the delegations under it.
CallReturnFlat(st) ==
    LET n == Len(st)
        parent == st[n - 1]
    IN  WithTop(Take(st, n - 1),
                [parent EXCEPT !.i = parent.i + 1,
                               !.result.ProofDelegations =
                                   Append(@, [st[n].result EXCEPT
                                                 !.ProofDelegations = <<>>])])

\* Lines 98 and 93: a nested call returns and its result is appended to the
\* caller's ProofDelegations; the caller's loop moves on.
CallReturn(st) ==
    LET n == Len(st)
        parent == st[n - 1]
    IN  WithTop(Take(st, n - 1),
                [parent EXCEPT !.i = parent.i + 1,
                               !.result.ProofDelegations = Append(@, st[n].result)])

\* ParseDelegationContent, line 122: parseDelegationToDelegationInfo is called
\* on the delegation.
ResolveCall ==
    /\ pc = "resolve"
    /\ stack' = <<NewCall(deleg[1])>>
    /\ pc' = "resolving"
    /\ UNCHANGED <<flags, opts, now, issuer, audience, deleg, signCalls, stdout,
                   err, info, known, abilities, errs, archive, formatted, digest,
                   content, calls, g3vars>>

\* The innermost call's loop takes its next proof.
ResolveProof ==
    /\ pc = "resolving"
    /\ stack[Len(stack)].i <= Len(stack[Len(stack)].d.proofs)
    /\ stack' = LoopStep(stack)
    /\ UNCHANGED <<pc, flags, opts, now, issuer, audience, deleg, signCalls, stdout,
                   err, info, known, abilities, errs, archive, formatted, digest,
                   content, calls, g3vars>>

\* Variant: the outermost call uses up the blocks of the delegation it read.
ResolveReturnConsuming ==
    /\ pc = "resolving"
    /\ stack[Len(stack)].i > Len(stack[Len(stack)].d.proofs)
    /\ IF Len(stack) > 1
       THEN stack' = CallReturn(stack) /\ UNCHANGED <<pc, info, deleg>>
       ELSE /\ info' = Append(info, stack[1].result)
            /\ deleg' = Some([deleg[1] EXCEPT !.blocks = <<>>])
            /\ stack' = <<>>
            /\ pc' = "resolved"
    /\ UNCHANGED <<flags, opts, now, issuer, audience, signCalls, stdout,
                   err, known, abilities, errs, archive, formatted, digest,
                   content, calls, g3vars>>

\* The innermost call's loop is over and the call returns: to its caller, or,
\* the outermost one, to ParseDelegationContent with the result, which comes
\* after the results of the calls before it.
ResolveReturn ==
    /\ pc = "resolving"
    /\ stack[Len(stack)].i > Len(stack[Len(stack)].d.proofs)
    /\ IF Len(stack) > 1
       THEN stack' = CallReturn(stack) /\ UNCHANGED <<pc, info>>
       ELSE /\ info' = Append(info, stack[1].result)
            /\ stack' = <<>>
            /\ pc' = "resolved"
    /\ UNCHANGED <<flags, opts, now, issuer, audience, deleg, signCalls, stdout,
                   err, known, abilities, errs, archive, formatted, digest,
                   content, calls, g3vars>>

\* The same delegation is given to parseDelegationToDelegationInfo once more;
\* the result it returned stays with the caller.
ResolveAgain ==
    /\ pc = "resolved"
    /\ Len(info) < MaxResolves
    /\ pc' = "resolve"
    /\ UNCHANGED <<flags, opts, now, issuer, audience, deleg, signCalls, stdout,
                   err, info, known, abilities, errs, archive, formatted, digest,
                   content, calls, stack, g3vars>>

NextResolve == ResolveCall \/ ResolveProof \/ ResolveReturn \/ ResolveAgain

SpecResolve == InitResolve /\ [][NextResolve]_vars

\* The resolutions of the delegations with up to MaxFairProofs proofs of their
\* own, the archive holding the first blocks of StoreBlocks, and of the chains
\* of one and two.  A call that has been made runs on: the steps of a
\* resolution are taken as long as one is possible.
InitResolveFair ==
    /\ InitResolve
    /\ Len(deleg[1].proofs) <= MaxFairProofs
    /\ \/ \E k \in 0..Len(StoreBlocks) : deleg[1].blocks = StoreFrom(1..k, 1)
       \/ \E n \in {1, 2} : deleg[1] = ChainRoot(n)

SpecResolveFair ==
    /\ InitResolveFair
    /\ [][NextResolve]_vars
    /\ WF_vars(ResolveCall \/ ResolveProof \/ ResolveReturn)

(***************************************************************************)
(* main.go: the generator of the delegations between the three services    *)
(* (upload service, indexing service, storage node), run one run after the *)
(* other while the wall clock advances.  The delegations are made by       *)
(* DelegateIndexingToUpload, DelegateIndexingToStorage and                 *)
(* DelegateStorageToUpload; the model keeps of each who delegates to whom. *)
(***************************************************************************)
MaxRuns == 2          \* runs of the generator
MaxTick == 3          \* latest value of the wall clock, in ticks

\* The wall clock ticks twice a second.
TicksPerSecond == 2

\* time.Now().Format("20060102_150405"): the time of day to the second.
Timestamp(t) == t \div TicksPerSecond

\* fmt.Sprintf("delegations_%s", timestamp), and a file in it.
DirPath(timestamp) == [dir |-> timestamp, file |-> ""]
FilePath(dirPath, file) == [dir |-> dirPath.dir, file |-> file]

\* The key files tried: a PEM file with an Ed25519 key, a path that cannot be
\* opened, a file without a PRIVATE KEY block; "" when the flag is not given.
KeyPaths == {"", "service.pem", "missing.pem", "empty.pem"}

\* The command lines tried; keys are the three key flags in the order upload,
\* indexing, storage.
G3FlagSpace ==
    [save : BOOLEAN, json : BOOLEAN,
     keys : {k \in [1..3 -> KeyPaths] :
                \A i \in 2..3 : k[i] \in {"", "service.pem"}}]

\* parseOrGenerateSigner: [ok, signer, err].  A generated key is a fresh one,
\* named by the run and the service it is made for.
parseOrGenerateSigner(path, run, i) ==
    IF path = ""
    THEN [ok |-> TRUE, signer |-> <<"generated", run, i>>, err |-> ""]
    ELSE IF path = "missing.pem"
    THEN [ok |-> FALSE, signer |-> <<>>, err |-> "opening file"]
    ELSE IF path = "empty.pem"
    THEN [ok |-> FALSE, signer |-> <<>>,
          err |-> "could not find a PRIVATE KEY block in the PEM file"]
    ELSE [ok |-> TRUE, signer |-> <<"file", 0, i>>, err |-> ""]

\* Variant: the two output flags may be given together.
SaveAndJsonNever(f) == FALSE

\* cctx.Bool("save") && cctx.Bool("json")
SaveAndJson(f) == f.save /\ f.json

\* The three delegations in the order they are made: issuer and audience as
\* places in services (1 upload, 2 indexing, 3 storage), and the file of each.
DelegationPlan ==
    <<[path |-> "Indexer -> Upload", issuer |-> 2, audience |-> 1,
       file |-> "indexer-to-upload.b64"],
      [path |-> "Indexer -> Storage", issuer |-> 2, audience |-> 3,
       file |-> "indexer-to-storage.b64"],
      [path |-> "Storage -> Upload", issuer |-> 3, audience |-> 1,
       file |-> "storage-to-upload.b64"]>>

\* os.WriteFile: the file is created or, if it is there, replaced.
WriteFile(fs, path, data) ==
    [p \in DOMAIN fs \cup {path} |-> IF p = path THEN data ELSE fs[p]]

G3Fail(msg) ==
    /\ pc' = "exit failed"
    /\ err' = msg

cmdvars == <<opts, now, issuer, audience, deleg, signCalls, info, known,
             abilities, errs, archive, formatted, digest, content, calls, stack>>

InitGen3 ==
    /\ pc = "idle"
    /\ flags = [save |-> FALSE, json |-> FALSE, keys |-> [i \in 1..3 |-> ""]]
    /\ stdout = <<>> /\ err = ""
    /\ services = <<>> /\ ucans = <<>> /\ files = <<>> /\ writes = <<>>
    /\ runs = 0 /\ wallClock = 0
    /\ opts = <<>> /\ now = 0 /\ issuer = None /\ audience = None
    /\ deleg = None /\ signCalls = 0 /\ info = None
    /\ known = KnownCapabilities /\ abilities = <<>> /\ errs = <<>>
    /\ archive = <<>> /\ formatted = <<>> /\ digest = None
    /\ content = <<>> /\ calls = <<>> /\ stack = <<>>

\* The wall clock advances while the generator runs and between its runs.
G3Tick ==
    /\ wallClock < MaxTick
    /\ wallClock' = wallClock + 1
    /\ UNCHANGED <<pc, flags, stdout, err, services, ucans, files, writes, runs,
                   cmdvars>>

\* A run starts: the cli sets the flags.
G3Run ==
    /\ pc = "idle"
    /\ runs < MaxRuns
    /\ runs' = runs + 1
    /\ flags' \in G3FlagSpace
    /\ services' = <<>> /\ ucans' = <<>> /\ err' = ""
    /\ pc' = "outputs"
    /\ UNCHANGED <<stdout, files, writes, wallClock, cmdvars>>

\* mkDelegation, lines 112-115.
G3CheckOutputs ==
    /\ pc = "outputs"
    /\ IF SaveAndJson(flags)
       THEN G3Fail("the --save and --json flags cannot be used together")
       ELSE pc' = "signers" /\ err' = err
    /\ UNCHANGED <<flags, stdout, services, ucans, files, writes, runs, wallClock,
                   cmdvars>>

\* mkDelegation, lines 117-128: the next of the three signers.
G3Signer ==
    /\ pc = "signers"
    /\ LET i == Len(services) + 1
           r == parseOrGenerateSigner(flags.keys[i], runs, i)
       IN  IF ~r.ok
           THEN services' = services /\ G3Fail(r.err)
           ELSE /\ services' = Append(services, r.signer)
                /\ pc' = IF i = 3 THEN "delegate" ELSE "signers"
                /\ err' = err
    /\ UNCHANGED <<flags, stdout, ucans, files, writes, runs, wallClock, cmdvars>>

\* mkDelegation, lines 129-181: the next of the three delegations is made,
\* unless its signer fails, and formatted.
G3Delegate ==
    /\ pc = "delegate"
    /\ LET plan == DelegationPlan[Len(ucans) + 1]
       IN  \E signerOk \in BOOLEAN :
               IF ~signerOk
               THEN ucans' = ucans /\ G3Fail("failed to create delegation")
               ELSE /\ ucans' = Append(ucans, [path |-> plan.path,
                                               issuer |-> services[plan.issuer],
                                               audience |-> services[plan.audience]])
                    /\ pc' = IF Len(ucans) + 1 = 3 THEN "output" ELSE "delegate"
                    /\ err' = err
    /\ UNCHANGED <<flags, stdout, services, files, writes, runs, wallClock, cmdvars>>

\* The files of a list are written one after the other into a directory made
\* first; okCalls is the number of file system calls that succeed, os.MkdirAll
\* being the first.  [files, writes, paths, err].
WriteInto(fs, log, run, dirPath, items, okCalls) ==
    LET RECURSIVE Loop(_, _, _)
        Loop(k, f, l) ==
            IF k > Len(items) \/ k >= okCalls THEN [files |-> f, writes |-> l]
            ELSE LET path == FilePath(dirPath, items[k].file)
                 IN  Loop(k + 1, WriteFile(f, path, items[k].data),
                          Append(l, [run |-> run, path |-> path,
                                     replaced |-> path \in DOMAIN f]))
        made == IF okCalls = 0 THEN fs ELSE WriteFile(fs, dirPath, "directory")
        r == Loop(1, made, log)
    IN  [files |-> r.files, writes |-> r.writes,
         paths |-> [k \in 1..Len(items) |-> FilePath(dirPath, items[k].file)],
         err |-> IF okCalls = 0 THEN "failed to create delegations directory"
                 ELSE IF okCalls <= Len(items) THEN "failed to write"
                 ELSE ""]

\* writeDelegationsToFiles: the three delegations, each in its file, in the
\* directory named by the time t.
writeDelegationsToFiles(fs, log, run, t, texts, okCalls) ==
    WriteInto(fs, log, run, DirPath(Timestamp(t)),
              [k \in 1..3 |-> [file |-> DelegationPlan[k].file, data |-> texts[k]]],
              okCalls)

\* writeJSONToFile: the services and the delegations in output.json, in the
\* directory named by the time t.
writeJSONToFile(fs, log, run, t, signers, texts, okCalls) ==
    WriteInto(fs, log, run, DirPath(Timestamp(t)),
              <<[file |-> "output.json",
                 data |-> [services |-> signers, delegations |-> texts]]>>,
              okCalls)

\* mkDelegation, lines 183-228: the files of --save, the file of --json, or
\* the tables on the console.
G3Output ==
    /\ pc = "output"
    /\ IF flags.save
       THEN \E okCalls \in 0..4 :
               LET r == writeDelegationsToFiles(files, writes, runs, wallClock,
                                                ucans, okCalls)
               IN  /\ files' = r.files /\ writes' = r.writes
                   /\ IF r.err # ""
                      THEN stdout' = stdout /\ G3Fail(r.err)
                      ELSE /\ stdout' = stdout \o <<<<"Delegations saved to:", r.paths>>>>
                           /\ pc' = "exit ok" /\ err' = err
       ELSE IF flags.json
       THEN \E okCalls \in 0..2 :
               LET r == writeJSONToFile(files, writes, runs, wallClock,
                                        services, ucans, okCalls)
               IN  /\ files' = r.files /\ writes' = r.writes
                   /\ IF r.err # ""
                      THEN stdout' = stdout /\ G3Fail(r.err)
                      ELSE /\ stdout' = stdout \o <<<<"JSON output has been saved to:", r.paths>>>>
                           /\ pc' = "exit ok" /\ err' = err
       ELSE /\ stdout' = stdout \o <<<<"Service", services>>, <<"Delegation Path", ucans>>>>
            /\ pc' = "exit ok" /\ err' = err
            /\ UNCHANGED <<files, writes>>
    /\ UNCHANGED <<flags, services, ucans, runs, wallClock, cmdvars>>

\* The process ends; its memory is gone, the files and the console stay.
G3Exit ==
    /\ pc \in {"exit ok", "exit failed"}
    /\ pc' = "idle"
    /\ services' = <<>> /\ ucans' = <<>>
    /\ UNCHANGED <<flags, stdout, err, files, writes, runs, wallClock, cmdvars>>

NextGen3 ==
    \/ G3Tick
    \/ G3Run
    \/ G3CheckOutputs
    \/ G3Signer
    \/ G3Delegate
    \/ G3Output
    \/ G3Exit

SpecGen3 == InitGen3 /\ [][NextGen3]_vars

(***************************************************************************)
(* The claims.                                                             *)
(***************************************************************************)
NothingSignedOrPrinted == deleg = None /\ signCalls = 0 /\ stdout = <<>>

\* C1 (Spec): round trip.  Parsing what gen printed for a delegation d never
\* fails, and the DelegationInfo it yields has d's issuer, audience,
\* capabilities (same count, same order, same ability and resource),
\* expiration, notBefore, nonce, facts and signature.
C1_RoundTrip ==
    /\ pc # "parse failed"
    /\ pc = "parsed" =>
          /\ info # None /\ deleg # None
          /\ LET i == info[1]
                 d == deleg[1]
             IN  /\ i.Issuer = d.issuer
                 /\ i.Audience = d.audience
                 /\ Len(i.Capabilities) = Len(d.capabilities)
                 /\ \A k \in 1..Len(d.capabilities) :
                       /\ i.Capabilities[k].Can = d.capabilities[k].can
                       /\ i.Capabilities[k].With = d.capabilities[k].with
                 /\ i.Expiration = d.expiration
                 /\ i.NotBefore = d.notBefore
                 /\ i.Nonce = d.nonce
                 /\ i.Facts = d.facts
                 /\ i.Signature = d.signature

\* C1's case: a delegation of two capabilities with an expiration, issued by
\* a did:web issuer, has been printed and parsed back.
C1_Witness ==
    /\ pc = "parsed"
    /\ Len(deleg[1].capabilities) = 2
    /\ deleg[1].expiration # None
    /\ info[1].Issuer = IssuerWebDid

\* C2 (SpecFormat): identity-digest reversibility.  Decoding Format(a) as a
\* content identifier with the identity hash succeeds and recovers a digest
\* equal to a byte for byte, and no other archive tried formats to the same
\* text.
C2_IdentityDigest ==
    /\ pc = "decoded" => digest = Some(archive)
    /\ pc = "formatted" =>
          \A b \in SeqsUpTo(ArchiveBytes, MaxArchiveLen) :
              FormatDelegationBytes(b) = formatted => b = archive

\* C2's case: the long archive, whose length takes two varint bytes, decoded.
C2_Witness ==
    /\ pc = "decoded"
    /\ archive = LongArchive
    /\ digest = Some(LongArchive)

\* C4 (SpecValidate): validator completeness.  The result lists every ability
\* of the input that is not known, in input order and once per occurrence;
\* for [blob/accept, x/y, z/w] it is exactly [x/y, z/w].
C4_ValidateComplete ==
    pc = "validated" =>
        /\ errs = SelectSeq(abilities, LAMBDA a : a \notin KnownCapabilities)
        /\ abilities = <<"blob/accept", "x/y", "z/w">> => errs = <<"x/y", "z/w">>

\* C4's case: the list [blob/accept, x/y, z/w] validated.
C4_Witness ==
    /\ pc = "validated"
    /\ abilities = <<"blob/accept", "x/y", "z/w">>
    /\ Len(errs) = 2

\* C5 (SpecValidate): validator soundness.  The result is empty if and only if
\* every ability is an exact member of the known set; an ability that differs
\* from a known one in letter case only, and the wildcard, are reported; and
\* no step changes the input list or the known set.
C5_ValidateSound ==
    /\ [](pc = "validated" =>
            /\ (errs = <<>>) <=>
                   (\A k \in 1..Len(abilities) : abilities[k] \in KnownCapabilities)
            /\ \A k \in 1..Len(abilities) :
                   abilities[k] \in {"Blob/Accept", "*/*"} =>
                       \E j \in 1..Len(errs) : errs[j] = abilities[k])
    /\ [][abilities' = abilities /\ known' = known]_vars

\* C5's case: a list holding a known ability and its upper-case variant,
\* validated with only the variant reported.
C5_Witness ==
    /\ pc = "validated"
    /\ abilities = <<"blob/accept", "Blob/Accept">>
    /\ errs = <<"Blob/Accept">>

C7_Original ==
    (now # 0 /\ flags.expirationGiven /\ flags.expiration > 0
       /\ flags.expiration <= now) =>
        (pc = "failed" /\ err = ExpirationInPast /\ NothingSignedOrPrinted)

\* C7 amended (Spec): the run fails with the expiration error exactly when the
\* expiration is positive and strictly before the current time (0 < e < now),
\* and then nothing is signed or printed; an expiration equal to the current
\* time is accepted.
C7_ExpirationInPast ==
    now # 0 =>
        /\ (flags.expiration > 0 /\ flags.expiration < now) <=>
               (pc = "failed" /\ err = ExpirationInPast)
        /\ err = ExpirationInPast => NothingSignedOrPrinted
        /\ flags.expiration = now => opts = <<WithExpiration(now)>>

\* C7's case: an expiration of 2 checked at time 3 and rejected.
C7_Witness ==
    /\ pc = "failed" /\ err = ExpirationInPast
    /\ flags.expirationGiven /\ flags.expiration = 2 /\ now = 3

\* C8 (Spec): a run with expiration = now - 1 fails with the expiration error,
\* and nothing is signed or printed.
C8_ExpiredRejected ==
    (now # 0 /\ flags.expirationGiven /\ flags.expiration = now - 1) =>
        (pc = "failed" /\ err = ExpirationInPast /\ NothingSignedOrPrinted)

\* C8's case: one capability, expiration one second before the clock, rejected.
C8_Witness ==
    /\ pc = "failed" /\ err = ExpirationInPast
    /\ Len(flags.capabilities) = 1
    /\ flags.expirationGiven /\ flags.expiration = now - 1

\* C9 as stated (Spec): a build with the expiration provided as 0 is never
\* given the representation of a build with no expiration (none).
C9_Original ==
    (deleg # None /\ flags.expirationGiven /\ flags.expiration = 0) =>
        deleg[1].expiration # None

\* C9 amended (Spec): a delegation built without an expiration has
\* expiration = none, in the delegation and in its DelegationInfo, and none is
\* kept apart from 0 (a delegation expiring at time 0 parses to expiration 0);
\* but gen takes an expiration of 0 or less as not provided, so such a build
\* has expiration none as well.
C9_NoExpiration ==
    /\ deleg # None =>
          /\ flags.expiration <= 0 => deleg[1].expiration = None
          /\ flags.expiration > 0 => deleg[1].expiration = Some(flags.expiration)
    /\ pc = "parsed" =>
          /\ info[1].Expiration = deleg[1].expiration
          /\ LET d0 == [deleg[1] EXCEPT !.expiration = Some(0)]
                 r == ParseDelegationContent(FormatDelegationBytes(Archive(d0)))
             IN  r.info # None /\ r.info[1].Expiration = Some(0)

\* C9's case: a build without --expiration, printed and parsed back with no
\* expiration.
C9_Witness ==
    /\ pc = "parsed"
    /\ ~flags.expirationGiven
    /\ deleg[1].expiration = None
    /\ info[1].Expiration = None

\* C10 (Spec): basic grant.  A delegation made from n abilities has exactly n
\* capabilities, the i-th with the i-th ability and the issuer's DID as its
\* resource, and expiration none when no expiration was given; for
\* [blob/allocate, blob/accept] that is 2 capabilities.
C10_BasicGrant ==
    deleg # None =>
        LET d == deleg[1]
        IN  /\ Len(d.capabilities) = Len(flags.capabilities)
            /\ \A k \in 1..Len(flags.capabilities) :
                  /\ d.capabilities[k].can = flags.capabilities[k]
                  /\ d.capabilities[k].with = issuer[1].did
            /\ d.issuer = issuer[1].did
            /\ ~flags.expirationGiven => d.expiration = None
            /\ flags.capabilities = <<"blob/allocate", "blob/accept">> =>
                  Len(d.capabilities) = 2

\* C10's case: [blob/allocate, blob/accept] delegated with no expiration.
C10_Witness ==
    /\ deleg # None
    /\ flags.capabilities = <<"blob/allocate", "blob/accept">>
    /\ ~flags.expirationGiven
    /\ Len(deleg[1].capabilities) = 2
    /\ deleg[1].capabilities[2].with = IssuerKeyDid

\* A text is another with the whitespace around it removed (at most two
\* characters on either side, as the contents tried have).
IsTrimOf(t, text) ==
    /\ \E a \in 0..2 : \E b \in 0..2 :
          /\ a + b <= Len(text)
          /\ t = SubSeq(text, a + 1, Len(text) - b)
          /\ \A i \in 1..a : IsSpace(text[i])
          /\ \A i \in (Len(text) - b + 1)..Len(text) : IsSpace(text[i])
    /\ Len(t) > 0 => ~IsSpace(t[1]) /\ ~IsSpace(t[Len(t)])

\* A DelegationInfo without the delegations under it.
Flat(i) == [i EXCEPT !.ProofDelegations = <<>>]

\* C11 (SpecParse): the fallback protocol of ParseDelegationContent.  The
\* first text handed to delegation.Parse is the content without the
\* whitespace around it.  If that parse succeeds, it is the only one and its
\* delegation is returned.  Only if it fails is the text base64-decoded: a
\* failed decoding ends the call with an error and no DelegationInfo, a
\* successful one is parsed once more, and that parse's outcome is the
\* call's.  There is never a third parse.  So the printed text parses
\* directly, also between whitespace; its base64 encoding parses on the
\* second attempt, which is given the printed text; a text that is no
\* delegation fails.
C11_ParseFallback ==
    pc # "parse" =>
        /\ Len(calls) \in {1, 2}
        /\ IsTrimOf(calls[1], content)
        /\ pc = "parsed" <=> (info # None /\ err = "")
        /\ pc = "parse failed" <=> info = None
        /\ LET direct == LibParse(calls[1])
               decoded == B64DecodeStd(calls[1])
           IN  /\ direct.ok =>
                     /\ Len(calls) = 1 /\ pc = "parsed"
                     /\ Flat(info[1]) = FlatInfo(direct.d[1])
               /\ (~direct.ok /\ ~decoded.ok) =>
                     /\ Len(calls) = 1 /\ pc = "parse failed"
                     /\ err = "failed to decode base64 content"
               /\ (~direct.ok /\ decoded.ok) =>
                     /\ Len(calls) = 2
                     /\ calls[2] = decoded.bytes
                     /\ B64EncodeStd(calls[2]) = calls[1]
                     /\ IF LibParse(calls[2]).ok
                        THEN /\ pc = "parsed"
                             /\ Flat(info[1]) = FlatInfo(LibParse(calls[2]).d[1])
                        ELSE /\ pc = "parse failed"
                             /\ err = "failed to import delegation from decoded content"
        /\ (deleg # None /\ IsTrimOf(formatted, content)) =>
              Len(calls) = 1 /\ pc = "parsed"
        /\ (deleg # None /\ IsTrimOf(B64EncodeStd(formatted), content)) =>
              Len(calls) = 2 /\ calls[2] = formatted /\ pc = "parsed"
        /\ deleg = None => pc = "parse failed"

\* C11's case: a base64-encoded delegation between whitespace has been
\* parsed on the second attempt.
C11_Witness ==
    /\ pc = "parsed"
    /\ Len(calls) = 2
    /\ calls[1] # content
    /\ calls[2] = formatted
    /\ Flat(info[1]) = FlatInfo(deleg[1])

\* A link resolves in a list of blocks: a block has it and is a delegation.
Resolvable(link, blocks) ==
    \E k \in 1..Len(blocks) : LinkOf(blocks[k]) = link /\ DecodeBlock(blocks[k]).ok

\* C12 (SpecResolve): pruned-proof tolerance.  The resolution of a delegation
\* never ends in an error, whichever of its proofs' blocks are absent or are
\* no delegation: it returns a DelegationInfo whose Proofs are all the links
\* and whose ProofDelegations has one entry less for each proof that does not
\* resolve; with a single proof that does not resolve it is empty.
C12_PrunedProofs ==
    /\ pc \in {"resolve", "resolving", "resolved"}
    /\ err = ""
    /\ pc = "resolved" =>
          /\ info # None
          /\ LET d == deleg[1]
                 pruned == {i \in 1..Len(d.proofs) : ~Resolvable(d.proofs[i], d.blocks)}
             IN  /\ info[1].Proofs = d.proofs
                 /\ Len(info[1].ProofDelegations) = Len(d.proofs) - Cardinality(pruned)
                 /\ (Len(d.proofs) = 1 /\ pruned = {1}) =>
                        info[1].ProofDelegations = <<>>

\* C12's case: a delegation whose only proof is the link of a block the
\* archive does not hold has been resolved, while the archive holds other
\* blocks.
C12_Witness ==
    /\ pc = "resolved"
    /\ deleg[1].proofs = <<MissingLink>>
    /\ Len(deleg[1].blocks) = Len(StoreBlocks)
    /\ info[1].ProofDelegations = <<>>

\* The delegation a resolvable link names.
DelegationOf(link, blocks) ==
    DecodeBlock(blocks[CHOOSE k \in 1..Len(blocks) : LinkOf(blocks[k]) = link]).d[1]

\* The ProofDelegations of i are the resolvable proofs of d, in d's order, and
\* so on under each of them.
RECURSIVE InProofOrder(_, _, _)
InProofOrder(i, d, blocks) ==
    LET ok == SelectSeq(d.proofs, LAMBDA l : Resolvable(l, blocks))
        pd == i.ProofDelegations
    IN  /\ Len(pd) = Len(ok)
        /\ Len(pd) <= Len(d.proofs)
        /\ Len(pd) = Len(d.proofs) <=>
              \A k \in 1..Len(d.proofs) : Resolvable(d.proofs[k], blocks)
        /\ \A k \in 1..Len(ok) :
              /\ Flat(pd[k]) = FlatInfo(DelegationOf(ok[k], blocks))
              /\ InProofOrder(pd[k], DelegationOf(ok[k], blocks), blocks)

\* C13 (SpecResolve): proof order.  At every node of the result,
\* ProofDelegations is the delegations of the proofs that resolve, each
\* once, in the order of the delegation's proofs: never longer than the
\* proofs, and as long exactly when every proof resolves.
C13_ProofOrder ==
    (pc = "resolved" /\ Len(deleg[1].blocks) <= Len(StoreBlocks)) =>
        InProofOrder(info[1], deleg[1], deleg[1].blocks)

\* C13's case: of three proofs the middle one does not resolve; the first
\* has two proofs of its own, both resolved.
C13_Witness ==
    /\ pc = "resolved"
    /\ deleg[1].proofs = <<Link(MidE), MissingLink, Link(LeafC)>>
    /\ Len(info[1].ProofDelegations) = 2
    /\ Len(info[1].ProofDelegations[1].ProofDelegations) = 2
    /\ info[1].ProofDelegations[2].Capabilities[1].Can = "claim/cache"

\* The DelegationInfo k levels under i along the first proof delegations:
\* None when the result has fewer levels, else Some(node).
RECURSIVE Under(_, _)
Under(i, k) ==
    IF k = 0 THEN Some(i)
    ELSE IF k = 1
    THEN IF Len(i.ProofDelegations) = 0 THEN None ELSE Some(i.ProofDelegations[1])
    ELSE LET half == Under(i, k \div 2)
         IN  IF half = None THEN None ELSE Under(half[1], k - k \div 2)

\* The result has exactly n levels along the first proof delegations.
HasLevels(i, n) == Under(i, n) # None /\ Under(i, n + 1) = None

\* C14 (SpecResolve), as the claim states it: depth bound.  With the default
\* maxDepth of 64 the calls of a resolution never nest deeper than 64 levels
\* under the outermost one, and the resolution of a chain of more than 64
\* nested proofs ends with the error ProofChainTooDeep and no DelegationInfo.
C14_Original ==
    /\ Len(stack) <= 64 + 1
    /\ (pc = "resolved" /\ Len(deleg[1].blocks) = DeepChain
          /\ deleg[1] = ChainRoot(DeepChain) /\ DeepChain > 64) =>
           (err = "ProofChainTooDeep" /\ info = None)

\* C15 (SpecResolve): the resolution of a chain of n nested proofs, all blocks
\* held, returns without error a result of exactly n levels under the top,
\* and the node at level k has the flat fields of the chain's k-th delegation
\* from the top and, but for the last, one proof delegation.
C15_ChainResolved ==
    \A n \in {1, 2, DeepChain} :
        (pc = "resolved" /\ Len(deleg[1].blocks) = n /\ deleg[1] = ChainRoot(n)) =>
            /\ err = "" /\ info # None
            /\ HasLevels(info[1], n)
            /\ LET chain == ChainSeq(n)
               IN  \A k \in 0..n :
                       LET node == Under(info[1], k)[1]
                       IN  /\ Flat(node) = FlatInfo(chain[n + 1 - k])
                           /\ Len(node.ProofDelegations) = IF k < n THEN 1 ELSE 0

\* C15's case: the chain of DeepChain nested proofs has been resolved down to
\* its last delegation, the one without a proof.
C15_Witness ==
    /\ pc = "resolved"
    /\ Len(deleg[1].blocks) = DeepChain
    /\ deleg[1] = ChainRoot(DeepChain)
    /\ HasLevels(info[1], DeepChain)
    /\ Under(info[1], DeepChain)[1].Proofs = <<>>
    /\ Under(info[1], DeepChain)[1].Issuer = IssuerWebDid

\* The node of a result reached by a path of places in ProofDelegations, and
\* the delegation reached by the same path of places in the proofs.
RECURSIVE NodeAt(_, _)
NodeAt(i, path) ==
    IF Len(path) = 0 THEN i
    ELSE NodeAt(i.ProofDelegations[Head(path)], Tail(path))

RECURSIVE DelegationAt(_, _, _)
DelegationAt(d, path, blocks) ==
    IF Len(path) = 0 THEN d
    ELSE DelegationAt(DelegationOf(d.proofs[Head(path)], blocks), Tail(path), blocks)

RECURSIVE ValidPath(_, _, _)
ValidPath(d, path, blocks) ==
    \/ Len(path) = 0
    \/ /\ Head(path) <= Len(d.proofs)
       /\ ValidPath(DelegationOf(d.proofs[Head(path)], blocks), Tail(path), blocks)

\* Every proof of d resolves, and so on under each of them.
RECURSIVE AllResolve(_, _)
AllResolve(d, blocks) ==
    \A k \in 1..Len(d.proofs) :
        /\ Resolvable(d.proofs[k], blocks)
        /\ AllResolve(DelegationOf(d.proofs[k], blocks), blocks)

\* C16 (SpecResolve): three-level chain.  When A's proof is B and B's proof
\* is C, all blocks held, the result's first proof delegation has B's flat
\* fields and that one's first proof delegation is C's flat info.  In
\* general, when every proof resolves, the node reached by a path of places
\* in the result is the flat info of the delegation reached by the same path
\* of places in the proofs.
C16_ThreeLevels ==
    (pc = "resolved" /\ Len(deleg[1].blocks) <= Len(StoreBlocks)) =>
        LET d == deleg[1]
        IN  /\ (d.proofs = <<Link(MidB)>> /\ AllResolve(d, d.blocks)) =>
                  /\ Flat(info[1]) = FlatInfo(d)
                  /\ Len(info[1].ProofDelegations) = 1
                  /\ Flat(info[1].ProofDelegations[1]) = FlatInfo(MidB)
                  /\ info[1].ProofDelegations[1].ProofDelegations = <<FlatInfo(LeafC)>>
            /\ AllResolve(d, d.blocks) =>
                  \A path \in SeqsUpTo(1..MaxProofs, 2) :
                      ValidPath(d, path, d.blocks) =>
                          Flat(NodeAt(info[1], path))
                              = FlatInfo(DelegationAt(d, path, d.blocks))

\* C16's case: A with the proof B, B with the proof C, all blocks held, has
\* been resolved.
C16_Witness ==
    /\ pc = "resolved"
    /\ deleg[1].proofs = <<Link(MidB)>>
    /\ Len(deleg[1].blocks) = Len(StoreBlocks)
    /\ info[1].ProofDelegations[1].Capabilities[1].Can = "blob/accept"
    /\ info[1].ProofDelegations[1].ProofDelegations[1] = FlatInfo(LeafC)

\* i has, at every level, one proof delegation per proof of d, the k-th with
\* the flat fields of the delegation the k-th proof names.
RECURSIVE SameChain(_, _, _)
SameChain(i, d, blocks) ==
    /\ i.Proofs = d.proofs
    /\ Len(i.ProofDelegations) = Len(d.proofs)
    /\ \A k \in 1..Len(d.proofs) :
          /\ Flat(i.ProofDelegations[k]) = FlatInfo(DelegationOf(d.proofs[k], blocks))
          /\ SameChain(i.ProofDelegations[k], DelegationOf(d.proofs[k], blocks), blocks)

\* C19 (SpecParse): the chain is preserved end to end.  For a delegation
\* whose proofs are all held in its archive, at every level, the
\* DelegationInfo parsed from the printed text of the archive, however the
\* text is wrapped, has at every level one ProofDelegations entry per proof of
\* the corresponding delegation, in the order of the proofs, and the top has
\* the flat fields of the delegation itself.
C19_ChainPreserved ==
    (pc # "parse" /\ deleg # None /\ AllResolve(deleg[1], deleg[1].blocks)) =>
        /\ pc = "parsed" /\ info # None
        /\ Flat(info[1]) = FlatInfo(deleg[1])
        /\ SameChain(info[1], deleg[1], deleg[1].blocks)

\* C19's case: a delegation with two different proofs, the first with two
\* proofs of its own, all held, has been read back from its base64-encoded
\* text.
C19_Witness ==
    /\ pc = "parsed"
    /\ Len(calls) = 2
    /\ deleg[1].proofs = <<Link(MidE), Link(LeafC)>>
    /\ AllResolve(deleg[1], deleg[1].blocks)
    /\ Len(info[1].ProofDelegations) = 2
    /\ Flat(info[1].ProofDelegations[1]) = FlatInfo(MidE)
    /\ info[1].ProofDelegations[1].ProofDelegations = <<FlatInfo(LeafD), FlatInfo(LeafC)>>
    /\ info[1].ProofDelegations[2] = FlatInfo(LeafC)

\* C20 (Spec), as the claim states it: every delegation the gen command has
\* made carries a signature that is not empty, and the DelegationInfo parsed
\* from its printed text has a Signature, an Issuer and an Audience that are
\* not empty and, for every capability, an ability and a resource that are
\* not empty.
C20_Original ==
    /\ deleg # None => Len(deleg[1].signature) > 0
    /\ pc = "parsed" =>
          /\ info[1].Signature # <<>>
          /\ info[1].Issuer # ""
          /\ info[1].Audience # ""
          /\ \A k \in 1..Len(info[1].Capabilities) :
                /\ info[1].Capabilities[k].Can # ""
                /\ info[1].Capabilities[k].With # ""

\* The abilities of a list that the known set does not hold.
UnknownOf(capabilities) == SelectSeq(capabilities, LAMBDA a : a \notin KnownCapabilities)

\* C21 (Spec): the validation gate of gen.  Without
\* --skip-capability-validation a run whose capabilities include an unknown
\* one never gets past the validation: nothing is signed, no delegation is
\* made, nothing is printed, and when the run reaches the validation it fails
\* there, with one error per unknown capability.  With the flag set the
\* validation never fails, whatever the strings, and every delegation made,
\* with or without the flag, grants exactly the capabilities given, in
\* order, on the issuer's DID.
C21_ValidationGate ==
    /\ (pc # "start" /\ ~flags.skipCapabilityValidation
          /\ UnknownOf(flags.capabilities) # <<>>) =>
          /\ NothingSignedOrPrinted
          /\ pc \in {"flags", "issuer", "didweb", "audience", "validate", "failed"}
    /\ err = "capabilities validation failed" =>
          /\ pc = "failed"
          /\ ~flags.skipCapabilityValidation
          /\ errs = UnknownOf(flags.capabilities) /\ errs # <<>>
    /\ (pc \in {"expiration", "build", "format", "print", "done", "parsed"}
          /\ ~flags.skipCapabilityValidation) =>
          UnknownOf(flags.capabilities) = <<>>
    /\ flags.skipCapabilityValidation => errs = <<>>
    /\ deleg # None =>
          deleg[1].capabilities =
              [i \in 1..Len(flags.capabilities) |->
                  [can |-> flags.capabilities[i], with |-> issuer[1].did]]

\* C21's case: a run with a known and an unknown capability and no skip flag
\* has failed at the validation, after the issuer and the audience were
\* parsed.
C21_Witness ==
    /\ pc = "failed"
    /\ err = "capabilities validation failed"
    /\ flags.capabilities = <<"blob/accept", "*/*">>
    /\ errs = <<"*/*">>
    /\ issuer # None /\ audience # None
    /\ NothingSignedOrPrinted

\* C22 (Spec): a signer failure in the build step ends the run with the
\* signer's error, wrapped by the command and otherwise as the signer gave
\* it; no delegation is returned and nothing is formatted or printed.  A
\* delegation is there only if the signer signed, once, and it carries that
\* signature; only then is anything formatted or printed.
C22_SigningFailure ==
    /\ \A cause \in SignerErrors :
          err = MakingDelegation(cause) =>
              /\ pc = "failed"
              /\ NothingSignedOrPrinted
              /\ archive = <<>> /\ formatted = <<>> /\ info = None
    /\ (pc = "failed" /\ now # 0 /\ err # ExpirationInPast) =>
          \E cause \in SignerErrors : err = MakingDelegation(cause)
    /\ deleg # None =>
          /\ signCalls = 1
          /\ deleg[1].signature =
                 Sign(issuer[1].key, EncodePayload([deleg[1] EXCEPT !.signature = <<>>]))
    /\ (formatted # <<>> \/ stdout # <<>>) => deleg # None

\* C22's case: every step before the build succeeded and the signer failed.
C22_Witness ==
    /\ pc = "failed"
    /\ err = MakingDelegation("key rejected")
    /\ issuer # None /\ audience # None /\ now # 0 /\ opts # <<>>
    /\ NothingSignedOrPrinted
    /\ formatted = <<>>

SaveAndJsonError == "the --save and --json flags cannot be used together"

\* C23 (SpecGen3): --save and --json exclude each other.  A run of the
\* three-service generator given both fails right after its flags are read,
\* with the error that names the two flags: it has no signer, parsed or
\* generated, and no delegation, and while it runs and after it no file or
\* directory is written and nothing is printed.
C23_SaveJsonExclusive ==
    /\ []((flags.save /\ flags.json /\ pc # "outputs") =>
              /\ pc \in {"exit failed", "idle"}
              /\ err = SaveAndJsonError
              /\ services = <<>> /\ ucans = <<>>
              /\ \A k \in 1..Len(writes) : writes[k].run # runs)
    /\ [](err = SaveAndJsonError => (flags.save /\ flags.json))
    /\ [][(flags.save /\ flags.json) =>
              (UNCHANGED <<files, writes, stdout>> /\ services' = <<>> /\ ucans' = <<>>)]_vars

\* C23's case: after a run that saved its files, a run given both flags has
\* failed and the files are those of the first run.
C23_Witness ==
    /\ pc = "exit failed"
    /\ runs = 2
    /\ flags.save /\ flags.json
    /\ err = SaveAndJsonError
    /\ Len(writes) = 3
    /\ \A k \in 1..3 : writes[k].run = 1

\* C24 (SpecGen3), as the claim states it: of any two runs of the generator,
\* the later one never writes a file at a path the earlier one wrote.
C24_Original ==
    \A j \in 1..Len(writes) : \A k \in 1..Len(writes) :
        (j < k /\ writes[j].run < writes[k].run) =>
            writes[j].path # writes[k].path

\* The flat fields of i are those of d: issuer, audience, version, expiration,
\* notBefore, nonce and signature equal, one capability {With, Can} per
\* capability {with, can} of d in order, one fact per fact of d in order.
FieldsCopied(i, d) ==
    /\ i.Issuer = d.issuer
    /\ i.Audience = d.audience
    /\ i.Version = d.version
    /\ i.Expiration = d.expiration
    /\ i.NotBefore = d.notBefore
    /\ i.Nonce = d.nonce
    /\ i.Signature = d.signature
    /\ Len(i.Capabilities) = Len(d.capabilities)
    /\ \A k \in 1..Len(d.capabilities) :
          /\ i.Capabilities[k].With = d.capabilities[k].with
          /\ i.Capabilities[k].Can = d.capabilities[k].can
    /\ Len(i.Facts) = Len(d.facts)
    /\ \A k \in 1..Len(d.facts) : i.Facts[k] = d.facts[k]

\* The same at i and at every node under it, each for the delegation its
\* proof resolves to.
RECURSIVE CopiedThroughout(_, _, _)
CopiedThroughout(i, d, blocks) ==
    LET ok == SelectSeq(d.proofs, LAMBDA l : Resolvable(l, blocks))
    IN  /\ FieldsCopied(i, d)
        /\ Len(i.ProofDelegations) = Len(ok)
        /\ \A k \in 1..Len(ok) :
              CopiedThroughout(i.ProofDelegations[k], DelegationOf(ok[k], blocks), blocks)

\* C25 (SpecResolve): flat info copy.  The root of every result has the
\* fields of the delegation resolved, and every nested node those of the
\* delegation its proof resolves to; along the long chain, the node at every
\* level has the fields of the chain's delegation at that level.
C25_FlatCopy ==
    pc = "resolved" =>
        /\ FieldsCopied(info[1], deleg[1])
        /\ Len(deleg[1].blocks) <= Len(StoreBlocks) =>
              CopiedThroughout(info[1], deleg[1], deleg[1].blocks)
        /\ (Len(deleg[1].blocks) = DeepChain /\ deleg[1] = ChainRoot(DeepChain)) =>
              LET chain == ChainSeq(DeepChain)
              IN  \A k \in 0..DeepChain :
                      FieldsCopied(Under(info[1], k)[1], chain[DeepChain + 1 - k])

\* C25's case: the delegation with every field set, without expiration, whose
\* first proof is a delegation with every field set, has been resolved.
C25_Witness ==
    /\ pc = "resolved"
    /\ deleg[1] = DetailedRoot(None)
    /\ info[1].Expiration = None
    /\ info[1].Nonce = "nonce-1"
    /\ info[1].Facts = <<"fact-b", "fact-a">>
    /\ info[1].Capabilities = <<[With |-> AudienceDid, Can |-> "claim/cache"],
                                [With |-> IssuerKeyDid, Can |-> "blob/accept"]>>
    /\ Len(info[1].ProofDelegations) = 1
    /\ info[1].ProofDelegations[1].Expiration = Some(7)
    /\ info[1].ProofDelegations[1].Signature = DetailedLeaf.signature

\* C26 (SpecResolve): the resolution only reads.  No step of it changes the
\* delegation it is given: its fields, its proof list and the blocks it
\* holds, link to bytes, stay as they were, whether proofs are pruned or not;
\* the running call works on that delegation; and a second resolution of the
\* same delegation returns a tree equal to the first.
C26_ReadOnly ==
    /\ [][deleg' = deleg]_vars
    /\ [](pc = "resolving" => stack[1].d = deleg[1])
    /\ []((pc = "resolved" /\ Len(info) = 2) => info[2] = info[1])

\* C26's case: a delegation with a resolved proof, a pruned proof and a
\* two-level proof has been resolved twice.
C26_Witness ==
    /\ pc = "resolved"
    /\ Len(info) = 2
    /\ deleg[1].proofs = <<Link(LeafC), MissingLink, Link(MidB)>>
    /\ Len(deleg[1].blocks) = Len(StoreBlocks)
    /\ Len(info[2].ProofDelegations) = 2
    /\ info[2].ProofDelegations[2].ProofDelegations = <<FlatInfo(LeafC)>>

\* C27 (SpecParse): base64 fallback equivalence.  With s the printed text of a
\* delegation, the content s between any leading and trailing whitespace, and
\* the standard base64 encoding of s, between whitespace or not, all parse,
\* and to a DelegationInfo equal to the one s parses to; the base64 encoding
\* does so through the fallback, s itself and s between whitespace without
\* it.
C27_FallbackEquivalence ==
    (pc # "parse" /\ deleg # None) =>
        LET plain == ParseDelegationContent(formatted)
        IN  /\ plain.err = "" /\ ~plain.fallback
            /\ pc = "parsed" /\ err = ""
            /\ info = plain.info
            /\ (\E w1 \in Leading : \E w2 \in Trailing : content = w1 \o formatted \o w2)
                  => Len(calls) = 1
            /\ IsTrimOf(B64EncodeStd(formatted), content) =>
                  Len(calls) = 2 /\ calls[2] = formatted

\* C27's case: the printed text of a delegation with two resolved proofs has
\* been parsed from between a vertical tab and a form feed.
C27_Witness ==
    /\ pc = "parsed"
    /\ content = <<11>> \o formatted \o <<12>>
    /\ Len(calls) = 1
    /\ deleg[1].proofs = <<Link(MidB), Link(LeafD)>>
    /\ Len(info[1].ProofDelegations) = 2

\* One step of a resolution, seen from the calls in progress: the innermost
\* call enters the delegation of its next proof and nothing else changes; or
\* it passes over a proof that does not resolve, moving on by one; or, all
\* its proofs dealt with, it returns and its caller moves on by one.
VisitsNextProofOnce ==
    LET n == Len(stack)
        top == stack[n]
        atProof == top.i <= Len(top.d.proofs)
    IN  (pc = "resolving" /\ stack' # stack) =>
            \/ /\ Len(stack') = n + 1
               /\ atProof /\ Resolvable(top.d.proofs[top.i], deleg[1].blocks)
               /\ SubSeq(stack', 1, n) = stack
               /\ stack'[n + 1].i = 1
               /\ stack'[n + 1].result.ProofDelegations = <<>>
            \/ /\ Len(stack') = n
               /\ atProof /\ ~Resolvable(top.d.proofs[top.i], deleg[1].blocks)
               /\ stack' = [stack EXCEPT ![n].i = top.i + 1]
            \/ /\ Len(stack') = n - 1
               /\ top.i = Len(top.d.proofs) + 1
               /\ Len(top.result.ProofDelegations) <= Len(top.d.proofs)
               /\ n > 1 => /\ stack'[n - 1].i = stack[n - 1].i + 1
                           /\ stack'[n - 1].d = stack[n - 1].d
                           /\ SubSeq(stack', 1, n - 2) = SubSeq(stack, 1, n - 2)

\* C28 (SpecResolveFair): the resolution terminates.  Every resolution that
\* is called returns; on the way each call deals with each of its proofs
\* once, in order, and a branch ends at a delegation without proofs or at a
\* proof that does not resolve.
C28_Terminates ==
    /\ (pc = "resolve") ~> (pc = "resolved")
    /\ [][VisitsNextProofOnce]_vars
    /\ [](pc = "resolving" =>
              \A k \in 1..Len(stack) :
                  /\ stack[k].i \in 1..(Len(stack[k].d.proofs) + 1)
                  /\ k < Len(stack) =>
                        /\ stack[k].i <= Len(stack[k].d.proofs)
                        /\ Resolvable(stack[k].d.proofs[stack[k].i], deleg[1].blocks))

\* C28's case: a resolution has returned whose branch went two levels down,
\* there passed over a proof whose block is absent and ended at a delegation
\* without proofs.
C28_Witness ==
    /\ pc = "resolved"
    /\ Len(info) = 1
    /\ deleg[1].proofs = <<Link(MidE)>>
    /\ deleg[1].blocks = StoreFrom(1..3, 1)
    /\ Len(info[1].ProofDelegations) = 1
    /\ info[1].ProofDelegations[1].Proofs = <<Link(LeafD), Link(LeafC)>>
    /\ info[1].ProofDelegations[1].ProofDelegations = <<FlatInfo(LeafC)>>

\* C29 (Spec): an --expiration of 0 or less, the default 0 and the negative
\* values, is never rejected as being in the past: the only option chosen is
\* the one for no expiration, the delegation made has no expiration, and so
\* has the DelegationInfo parsed from its text.  The expiration error is given
\* only for values greater than 0.
C29_NonPositiveExpiration ==
    /\ (now # 0 /\ flags.expiration <= 0) =>
          /\ err # ExpirationInPast
          /\ opts = <<WithNoExpiration>>
          /\ deleg # None => deleg[1].expiration = None
          /\ pc = "parsed" => info[1].Expiration = None
    /\ err = ExpirationInPast => flags.expiration > 0
    /\ (now # 0 /\ flags.expiration > 0 /\ err # ExpirationInPast) =>
          opts = <<WithExpiration(flags.expiration)>>

\* C29's case: a run given --expiration -1 has printed a delegation without
\* expiration.
C29_Witness ==
    /\ pc = "done"
    /\ flags.expirationGiven /\ flags.expiration = -1
    /\ deleg # None /\ deleg[1].expiration = None
    /\ stdout # <<>>

\* The steps of mkDelegation in the order of its lines, flag handling first.
GenSteps ==
    <<"start", "flags", "issuer", "didweb", "audience", "validate",
      "expiration", "build", "format", "print", "done">>

StepRank(p) == CHOOSE i \in 1..Len(GenSteps) : GenSteps[i] = p

InGenRun(p) == \E i \in 1..Len(GenSteps) : GenSteps[i] = p

\* A step of the gen command goes to the next step in the order, or fails;
\* a failing step sets the error, and only a failing step does.
GenStepInOrder ==
    (InGenRun(pc) /\ pc # "done") =>
       /\ \/ pc' = "failed" /\ err' # ""
          \/ /\ InGenRun(pc') /\ StepRank(pc') = StepRank(pc) + 1
             /\ err' = "" /\ err = ""
       /\ stdout' # stdout => (pc = "print" /\ stdout = <<>>)

\* What the steps after the given one set is as at the start.
NothingAfter(step) ==
    /\ step < StepRank("issuer") => issuer = None
    /\ step < StepRank("audience") => audience = None
    /\ step < StepRank("validate") => errs = <<>>
    /\ step < StepRank("expiration") => now = 0 /\ opts = <<>>
    /\ step < StepRank("build") => deleg = None /\ signCalls = 0
    /\ step < StepRank("format") => archive = <<>> /\ formatted = <<>>
    /\ step < StepRank("print") => stdout = <<>>

\* The step that gives each error of the gen command.
FailedStep ==
    CASE err = "flag validation" -> StepRank("flags")
      [] err \in {"parsing issuer private key from file",
                  "parsing issuer private key"} -> StepRank("issuer")
      [] err \in {"issuer did:web: must start with 'did:web:' prefix",
                  "parsing issuer did web key"} -> StepRank("didweb")
      [] err = "parsing audience did key" -> StepRank("audience")
      [] err = "capabilities validation failed" -> StepRank("validate")
      [] err = ExpirationInPast -> StepRank("expiration")
      [] OTHER -> StepRank("build")

\* The failing step has not set its own result either.
FailedStepSetNothing ==
    /\ FailedStep = StepRank("issuer") => issuer = None
    /\ FailedStep = StepRank("audience") => audience = None
    /\ FailedStep = StepRank("expiration") => opts = <<>>
    /\ FailedStep = StepRank("build") => deleg = None /\ signCalls = 0

====
